---------------------------- MODULE Spec2Model ----------------------------
(***************************************************************************)
(* Model of arcana's analysis-specification core (arcana/core/analysis.py): *)
(* the AnalysisSpec registry and its validators, make_class (assembly of a  *)
(* class body and its base classes into an AnalysisSpec), analysis         *)
(* instances with validated parameters, and                                *)
(* ColumnSpec.select_pipeline_builders (run-time dispatch); of the cache    *)
(* protocol of RemoteStore (arcana/core/data/store/remote.py); and of      *)
(* DataTree.add_leaf (arcana/core/data/tree.py).                           *)
(*                                                                         *)
(* A Python call is modelled by an operator that returns a record          *)
(* [exc, msg, val]: exc = "none" when the call returns val, otherwise the  *)
(* name of the exception class that propagates out of the call and msg a   *)
(* tag for the raise statement it comes from.                              *)
(***************************************************************************)
EXTENDS Naturals, Sequences, FiniteSets

VARIABLES
    body,       \* the declarations of the class handed to make_class / AnalysisSpec
    registry,   \* class name -> its __spec__ (NoSpec while the class does not exist)
    dicts,      \* class name -> the names of its __dict__ (<<>> while it does not exist)
    analysis,   \* the analysis instance of class "Main" (NoAnalysis before it is created)
    outcome,    \* what the latest call did
    store,      \* the cache of one entry of a RemoteStore and the calls in progress on it
    tree        \* the rows of a DataTree and the links between them

vars == <<body, registry, dicts, analysis, outcome, store, tree>>

----------------------------------------------------------------------------
(* Python values *)

\* Python's None
None == [tag |-> "None"]

\* a call that returned v
Return(v) == [exc |-> "none", msg |-> "", val |-> v]

\* a call that raised exception class e at the raise statement tagged m
Raise(e, m) == [exc |-> e, msg |-> m, val |-> None]

\* x in tuple
In(x, tuple) == \E i \in 1..Len(tuple) : tuple[i] = x

\* tuple.count(x)
Count(tuple, x) == Cardinality({i \in 1..Len(tuple) : tuple[i] = x})

\* string order of the names the model uses (Python compares str lexicographically)
NameOrder ==
    <<"B1", "B2", "B3", "chk", "dataset", "inner", "inp", "mode", "n", "out", "pinner",
      "sub", "sw">>

NameRank(n) == CHOOSE i \in 1..Len(NameOrder) : NameOrder[i] = n

\* sorted(tuple, key=attrgetter("name")): a stable insertion sort
RECURSIVE SortedByName(_)
SortedByName(tuple) ==
    IF tuple = <<>> THEN <<>>
    ELSE LET rest == SortedByName(Tail(tuple))
             x == Head(tuple)
             before == {i \in 1..Len(rest) : NameRank(rest[i].name) < NameRank(x.name)}
             k == Cardinality(before)
         IN SubSeq(rest, 1, k) \o <<x>> \o SubSeq(rest, k + 1, Len(rest))

----------------------------------------------------------------------------
(* Salience *)

\* Salience.<name>.level
SalienceLevel(s) ==
    CASE s = "primary" -> 5
      [] s = "publication" -> 4
      [] s = "supporting" -> 3
      [] s = "qa" -> 2
      [] s = "debug" -> 1
      [] s = "temp" -> 0

----------------------------------------------------------------------------
(* The frozen records of a specification *)

\* Operation(operator, operands); an operand is an Operation or a plain value
Operation(operator, operands) ==
    [tag |-> "Operation", operator |-> operator, operands |-> operands]

\* a str value: an attribute name or a literal
Str(s) == [tag |-> "str", val |-> s]

\* a bool value
Bool(b) == [tag |-> "bool", val |-> b]

\* an int value
Int(n) == [tag |-> "int", val |-> n]

\* a list, tuple or dict.items() that stands where None can stand
List(items) == [tag |-> "list", items |-> items]

\* the pair (first, second)
Pair(first, second) == [tag |-> "tuple", first |-> first, second |-> second]

\* bool(v)
Truthy(v) ==
    CASE v.tag = "None" -> FALSE
      [] v.tag = "bool" -> v.val
      [] v.tag = "str" -> v.val # ""
      [] v.tag = "int" -> v.val # 0
      [] v.tag = "list" -> v.items # <<>>
      [] OTHER -> TRUE

\* the fields of the frozen records that the model follows; defined_in names classes
ColumnSpec(name, salience, defined_in, modified, mapped_from) ==
    [name |-> name, salience |-> salience, defined_in |-> defined_in,
     modified |-> modified, mapped_from |-> mapped_from]

Parameter(name, salience, choices, lower_bound, upper_bound, defined_in, modified, default, mapped_from) ==
    [name |-> name, salience |-> salience, choices |-> choices,
     lower_bound |-> lower_bound, upper_bound |-> upper_bound, defined_in |-> defined_in,
     modified |-> modified, default |-> default, mapped_from |-> mapped_from]

\* Parameter.default_validator
default_validator(parameter) ==
    IF parameter.default = None /\ parameter.salience # "required"
        THEN Raise("ValueError", "default_must_be_provided")
        ELSE Return(None)

Switch(name, defined_in) == [name |-> name, defined_in |-> defined_in]

PipelineBuilder(name, parameters, inputs, outputs, condition, switch, defined_in) ==
    [name |-> name, parameters |-> parameters, inputs |-> inputs,
     outputs |-> outputs, condition |-> condition, switch |-> switch,
     defined_in |-> defined_in]

Check(name, column, defined_in) == [name |-> name, column |-> column, defined_in |-> defined_in]

SubanalysisSpec(name, type, mappings, defined_in) ==
    [name |-> name, type |-> type, mappings |-> mappings, defined_in |-> defined_in]

----------------------------------------------------------------------------
(* AnalysisSpec and its validators *)

\* unique_names with the count compared to 2: a pair of equal names passes
unique_names_CountAboveTwo(val) ==
    LET names == [i \in 1..Len(val) |-> val[i].name]
        duplicates == SelectSeq(val, LAMBDA v : Count(names, v.name) > 2)
    IN IF duplicates # <<>> THEN Raise("ValueError", "duplicate_names") ELSE Return(None)

\* names.count(v.name) > 1 for some v of val
unique_names(val) ==
    LET names == [i \in 1..Len(val) |-> val[i].name]
        duplicates == SelectSeq(val, LAMBDA v : Count(names, v.name) > 1)
    IN IF duplicates # <<>> THEN Raise("ValueError", "duplicate_names") ELSE Return(None)

\* the pipeline builders that list the column among their outputs
Producers(pipeline_builders, column_name) ==
    SelectSeq(pipeline_builders, LAMBDA p : In(column_name, p.outputs))

\* Duplicated with len(d) > 2: a group of two builders is not reported
Duplicated_AboveTwo(producers) ==
    {<<producers[i].condition, producers[i].switch>> : i \in
        {i \in 1..Len(producers) :
            \E j, k \in 1..Len(producers) :
                /\ j # i /\ k # i /\ j # k
                /\ producers[j].condition = producers[i].condition
                /\ producers[j].switch = producers[i].switch
                /\ producers[k].condition = producers[i].condition
                /\ producers[k].switch = producers[i].switch}}

\* the groups of sorted_by_cond with more than one builder
Duplicated(producers) ==
    {<<producers[i].condition, producers[i].switch>> : i \in
        {i \in 1..Len(producers) :
            \E j \in 1..Len(producers) :
                /\ j # i
                /\ producers[j].condition = producers[i].condition
                /\ producers[j].switch = producers[i].switch}}

\* ColumnCheck without the salience test: a consumed column is accepted
ColumnCheck_NoSalience(column_spec, pipeline_builders) ==
    LET sorted_by_cond == Producers(pipeline_builders, column_spec.name)
        inputs_to == SelectSeq(pipeline_builders, LAMBDA p : In(column_spec.name, p.inputs))
    IN IF Duplicated(sorted_by_cond) # {}
           THEN Raise("ArcanaDesignError", "multiple_pipelines")
       ELSE IF sorted_by_cond = <<>> /\ ~Truthy(column_spec.mapped_from) /\ inputs_to = <<>>
           THEN Raise("ArcanaDesignError", "neither_input_nor_output")
       ELSE Return(None)

\* ColumnCheck with the salience compared by < : publication is accepted
ColumnCheck_StrictlyBelow(column_spec, pipeline_builders) ==
    LET sorted_by_cond == Producers(pipeline_builders, column_spec.name)
        inputs_to == SelectSeq(pipeline_builders, LAMBDA p : In(column_spec.name, p.inputs))
    IN IF Duplicated(sorted_by_cond) # {}
           THEN Raise("ArcanaDesignError", "multiple_pipelines")
       ELSE IF sorted_by_cond = <<>> /\ ~Truthy(column_spec.mapped_from)
           THEN IF inputs_to = <<>>
                    THEN Raise("ArcanaDesignError", "neither_input_nor_output")
                ELSE IF SalienceLevel(column_spec.salience) < SalienceLevel("publication")
                    THEN Raise("ArcanaDesignError", "not_generated")
                ELSE Return(None)
       ELSE Return(None)

\* the body of the loop of column_specs_validator for one column
ColumnCheck(column_spec, pipeline_builders) ==
    LET sorted_by_cond == Producers(pipeline_builders, column_spec.name)
        inputs_to == SelectSeq(pipeline_builders, LAMBDA p : In(column_spec.name, p.inputs))
    IN IF Duplicated(sorted_by_cond) # {}
           THEN Raise("ArcanaDesignError", "multiple_pipelines")
       ELSE IF sorted_by_cond = <<>> /\ ~Truthy(column_spec.mapped_from)
           THEN IF inputs_to = <<>>
                    THEN Raise("ArcanaDesignError", "neither_input_nor_output")
                ELSE IF SalienceLevel(column_spec.salience) <= SalienceLevel("publication")
                    THEN Raise("ArcanaDesignError", "not_generated")
                ELSE Return(None)
       ELSE Return(None)

\* the first exception of a sequence of call results, or Return(None)
FirstRaised(results) ==
    LET raised == {i \in 1..Len(results) : results[i].exc # "none"}
    IN IF raised = {} THEN Return(None)
       ELSE results[CHOOSE i \in raised : \A j \in raised : i <= j]

column_specs_validator(column_specs, pipeline_builders) ==
    FirstRaised([i \in 1..Len(column_specs) |->
                    ColumnCheck(column_specs[i], pipeline_builders)])

\* pipeline_builders_validator looking the inputs up instead of the outputs
pipeline_builders_validator_Inputs(pipeline_builders, column_specs) ==
    LET column_names == [i \in 1..Len(column_specs) |-> column_specs[i].name]
        missing(p) == SelectSeq(p.inputs, LAMBDA o : ~In(o, column_names))
    IN FirstRaised([i \in 1..Len(pipeline_builders) |->
                       IF missing(pipeline_builders[i]) # <<>>
                           THEN Raise("ArcanaDesignError", "unknown_columns")
                           ELSE Return(None)])

pipeline_builders_validator(pipeline_builders, column_specs) ==
    LET column_names == [i \in 1..Len(column_specs) |-> column_specs[i].name]
        missing(p) == SelectSeq(p.outputs, LAMBDA o : ~In(o, column_names))
    IN FirstRaised([i \in 1..Len(pipeline_builders) |->
                       IF missing(pipeline_builders[i]) # <<>>
                           THEN Raise("ArcanaDesignError", "unknown_columns")
                           ELSE Return(None)])

\* the record the attrs-generated __init__ stores
SpecRecord(space, column_specs, pipeline_builders, parameters, switches, checks, subanalyses) ==
    [tag |-> "AnalysisSpec", space |-> space, column_specs |-> column_specs,
     pipeline_builders |-> pipeline_builders, parameters |-> parameters,
     switches |-> switches, checks |-> checks, subanalyses |-> subanalyses]

\* AnalysisSpec(...): the fields are set, then the validators run in field order
AnalysisSpec(space, column_specs, pipeline_builders, parameters, switches, checks, subanalyses) ==
    LET validation == FirstRaised(<<
            unique_names(column_specs),
            column_specs_validator(column_specs, pipeline_builders),
            unique_names(pipeline_builders),
            pipeline_builders_validator(pipeline_builders, column_specs),
            unique_names(parameters),
            unique_names(switches),
            unique_names(checks),
            unique_names(subanalyses)>>)
    IN IF validation.exc # "none" THEN validation
       ELSE Return(SpecRecord(space, column_specs, pipeline_builders, parameters,
                              switches, checks, subanalyses))


----------------------------------------------------------------------------
(* The class body handed to make_class: the temporary attributes and the   *)
(* decorated methods of the class's __dict__                               *)

\* a column attribute (a _TempColumnAttr, or a _MappedFrom resolved to one)
ColumnAttr(name, salience, mapped_from) ==
    [name |-> name, salience |-> salience, mapped_from |-> mapped_from]

\* a parameter attribute (_TempParameterAttr)
ParameterAttr(name, salience, choices, lower_bound, upper_bound, default, mapped_from) ==
    [name |-> name, salience |-> salience, choices |-> choices,
     lower_bound |-> lower_bound, upper_bound |-> upper_bound, default |-> default,
     mapped_from |-> mapped_from]

\* an attribute declared through Inherited (_Inherited): to_overwrite lists the
\* items of its dict as Pair(field, value)
InheritedAttr(name, to_overwrite) == [name |-> name, to_overwrite |-> to_overwrite]

\* a subanalysis attribute (_TempSubanalysisAttr); type is the annotated class
SubanalysisAttr(name, type, mappings) ==
    [name |-> name, type |-> type, mappings |-> mappings]

\* a method with PIPELINE_ANNOTATIONS; args are its arguments after self and wf
PipelineMethod(name, args, outputs, condition, switch) ==
    [name |-> name, args |-> args, outputs |-> outputs, condition |-> condition,
     switch |-> switch]

\* a method with SWICTH_ANNOTATIONS
SwitchMethod(name, args) == [name |-> name, args |-> args]

\* a method with CHECK_ANNOTATIONS
CheckMethod(name, args, column) == [name |-> name, args |-> args, column |-> column]

EmptyBody ==
    [columns |-> <<>>, parameters |-> <<>>, subanalyses |-> <<>>, inherited |-> <<>>,
     pipelines |-> <<>>, switches |-> <<>>, checks |-> <<>>]

\* _UnresolvedOp(operator, operands); an operand is an _UnresolvedOp, an attribute
\* of the class (Attr) or a literal
UnresolvedOp(operator, operands) ==
    [tag |-> "_UnresolvedOp", operator |-> operator, operands |-> operands]

\* an attribute of the class body used as an operand; attr_name is its name
Attr(attr_name) == [tag |-> "attr", attr_name |-> attr_name]

\* value_of(mode) == "fast"
Fast == UnresolvedOp("eq", <<UnresolvedOp("value_of", <<Attr("mode")>>), Str("fast")>>)

\* value_of(mode) != "slow"
NotSlow == UnresolvedOp("ne", <<UnresolvedOp("value_of", <<Attr("mode")>>), Str("slow")>>)

ModeParameter ==
    ParameterAttr("mode", "recommended", List(<<Str("fast"), Str("slow")>>), None, None,
                  Str("slow"), None)

\* the class of the subanalysis "sub": column inner, produced by B3
SubBody ==
    [EmptyBody EXCEPT !.columns = <<ColumnAttr("inner", "publication", None)>>,
                      !.pipelines = <<PipelineMethod("B3", <<>>, <<"inner">>, None, None)>>]

\* a base class: column inp feeds B1, which produces column out
BaseBody ==
    [EmptyBody EXCEPT !.columns = <<ColumnAttr("inp", "primary", None),
                                    ColumnAttr("out", "publication", None)>>,
                      !.pipelines = <<PipelineMethod("B1", <<"inp">>, <<"out">>, None, None)>>]

Spaces == {"Clinical", "Samples"}

Classes == {"Base", "Sub", "Mid", "Main"}

\* the __spec__ of a class that does not exist (its make_class has not returned)
NoSpec == [tag |-> "NoSpec"]


----------------------------------------------------------------------------
(* make_class *)

Names(tuple) == [i \in 1..Len(tuple) |-> tuple[i].name]

\* RESERVED_NAMES
RESERVED_NAMES == {"dataset", "menu", "stack", "_dataset", "_menu", "_stack"}

\* the names of __attrs_attrs__ of an assembled class
AttrsNames(spec) ==
    {spec.column_specs[i].name : i \in 1..Len(spec.column_specs)}
        \cup {spec.parameters[i].name : i \in 1..Len(spec.parameters)}
        \cup {spec.subanalyses[i].name : i \in 1..Len(spec.subanalyses)}

\* _MappedFrom.resolve of one attribute of the body
MappedFrom_resolve(attr, klass_body, reg) ==
    LET annotated == SelectSeq(klass_body.subanalyses,
                               LAMBDA a : a.name = attr.mapped_from.first)
    IN IF attr.mapped_from = None THEN Return(None)
       ELSE IF annotated = <<>> THEN Raise("KeyError", "annotations")
       ELSE IF attr.mapped_from.second \notin AttrsNames(reg[annotated[1].type])
           THEN Raise("ArcanaDesignError", "no_attribute_in_subanalysis")
       ELSE Return(None)

\* to_overwrite.get(field, value)
Overwritten(to_overwrite, field, value) ==
    LET given == SelectSeq(to_overwrite, LAMBDA item : item.first = field)
    IN IF given = <<>> THEN value ELSE given[1].second

\* _Inherited.resolve of one attribute of a class with base classes mro: the
\* attribute of the nearest base class that has the name in its __dict__ is
\* turned back into a temporary attribute (from_attrs_attr), with the fields of
\* to_overwrite replaced. The result is the attribute as make_class will record
\* it. copy() of the metadata of a subanalysis attribute raises TypeError
Inherited_resolve(attr, mro, reg, klass_dicts) ==
    LET defined_in == SelectSeq(mro, LAMBDA base : In(attr.name, klass_dicts[base]))
        fields == reg[defined_in[1]]
        columns == SelectSeq(fields.column_specs, LAMBDA c : c.name = attr.name)
        parameters == SelectSeq(fields.parameters, LAMBDA p : p.name = attr.name)
        subanalyses == SelectSeq(fields.subanalyses, LAMBDA a : a.name = attr.name)
        get(field, value) == Overwritten(attr.to_overwrite, field, value)
        parameter == Parameter(attr.name,
                               get("salience", Str(parameters[1].salience)).val,
                               get("choices", parameters[1].choices),
                               get("lower_bound", parameters[1].lower_bound),
                               get("upper_bound", parameters[1].upper_bound),
                               defined_in, List(attr.to_overwrite),
                               get("default", parameters[1].default),
                               parameters[1].mapped_from)
    IN IF defined_in = <<>> THEN Raise("AttributeError", "no_attribute_to_inherit")
       ELSE IF columns # <<>>
           THEN Return([kind |-> "column",
                        attr |-> ColumnSpec(attr.name,
                                            get("salience", Str(columns[1].salience)).val,
                                            defined_in, List(attr.to_overwrite),
                                            columns[1].mapped_from)])
       ELSE IF parameters # <<>>
           THEN IF /\ parameter.choices # None
                   /\ (parameter.lower_bound # None \/ parameter.upper_bound # None)
                    THEN Raise("ArcanaDesignError", "bounds_with_choices")
                    ELSE Return([kind |-> "parameter", attr |-> parameter])
       ELSE IF subanalyses # <<>> THEN Raise("TypeError", "copy_metadata")
       ELSE Raise("AttributeError", "attrs_fields")

\* the names of decorated_klass.__dict__ that the model's bodies carry
DictNames(klass_body) ==
    Names(klass_body.columns) \o Names(klass_body.parameters)
        \o Names(klass_body.subanalyses) \o Names(klass_body.inherited)
        \o Names(klass_body.pipelines) \o Names(klass_body.switches)
        \o Names(klass_body.checks)

\* the first loop of make_class: no name is reserved, and every inherited and
\* mapped attribute is resolved; val lists the resolved inherited attributes
ResolveAttributes(klass_body, mro, reg, klass_dicts) ==
    LET attrs == klass_body.columns \o klass_body.parameters
        names == DictNames(klass_body)
        inherited == [i \in 1..Len(klass_body.inherited) |->
                         Inherited_resolve(klass_body.inherited[i], mro, reg, klass_dicts)]
        raised == FirstRaised(
            [i \in 1..Len(names) |->
                IF names[i] \in RESERVED_NAMES
                    THEN Raise("ArcanaDesignError", "reserved_name") ELSE Return(None)]
            \o [i \in 1..Len(attrs) |-> MappedFrom_resolve(attrs[i], klass_body, reg)]
            \o inherited)
    IN IF raised.exc # "none" THEN raised
       ELSE Return([i \in 1..Len(inherited) |-> inherited[i].val])

\* the operand as _UnresolvedOp.resolve stores it
RECURSIVE ResolvedOperand(_)
ResolvedOperand(operand) ==
    CASE operand.tag = "_UnresolvedOp" ->
            Operation(operand.operator,
                      [i \in 1..Len(operand.operands) |-> ResolvedOperand(operand.operands[i])])
      [] operand.tag = "attr" -> Str(operand.attr_name)
      [] OTHER -> operand

\* _UnresolvedOp.resolve without the resolution of the nested operations
UnresolvedOp_resolve_Unnested(self, column_specs, parameters) ==
    LET resolved == [i \in 1..Len(self.operands) |-> ResolvedOperand(self.operands[i])]
    IN IF self.operator = "value_of"
             /\ (Len(resolved) # 1 \/ resolved[1].tag # "str"
                 \/ ~In(resolved[1].val, Names(parameters)))
          THEN IF Len(resolved) # 1 THEN Raise("AssertionError", "value_of")
               ELSE Raise("ValueError", "value_of_non_parameter")
       ELSE IF self.operator = "is_provided"
                /\ (Len(resolved) > 2 \/ Len(resolved) = 0 \/ resolved[1].tag # "str"
                    \/ ~In(resolved[1].val, Names(column_specs)))
           THEN IF Len(resolved) > 2 THEN Raise("AssertionError", "is_provided")
                ELSE IF Len(resolved) = 0 THEN Raise("IndexError", "is_provided")
                ELSE Raise("ValueError", "is_provided_non_column")
       ELSE Return(Operation(self.operator, resolved))

\* _UnresolvedOp.resolve
RECURSIVE UnresolvedOp_resolve(_, _, _)
UnresolvedOp_resolve(self, column_specs, parameters) ==
    LET nested == FirstRaised([i \in 1..Len(self.operands) |->
                    IF self.operands[i].tag = "_UnresolvedOp"
                        THEN UnresolvedOp_resolve(self.operands[i], column_specs, parameters)
                        ELSE Return(None)])
        resolved == [i \in 1..Len(self.operands) |-> ResolvedOperand(self.operands[i])]
    IN IF nested.exc # "none" THEN nested
       ELSE IF self.operator = "value_of"
                /\ (Len(resolved) # 1 \/ resolved[1].tag # "str"
                    \/ ~In(resolved[1].val, Names(parameters)))
           THEN IF Len(resolved) # 1 THEN Raise("AssertionError", "value_of")
                ELSE Raise("ValueError", "value_of_non_parameter")
       ELSE IF self.operator = "is_provided"
                /\ (Len(resolved) > 2 \/ Len(resolved) = 0 \/ resolved[1].tag # "str"
                    \/ ~In(resolved[1].val, Names(column_specs)))
           THEN IF Len(resolved) > 2 THEN Raise("AssertionError", "is_provided")
                ELSE IF Len(resolved) = 0 THEN Raise("IndexError", "is_provided")
                ELSE Raise("ValueError", "is_provided_non_column")
       ELSE Return(Operation(self.operator, resolved))

\* _get_args_automagically
get_args_automagically(column_specs, parameters, method) ==
    LET column_names == Names(column_specs)
        param_names == Names(parameters)
        unrecognised == SelectSeq(method.args,
                            LAMBDA a : ~In(a, column_names) /\ ~In(a, param_names))
    IN IF unrecognised # <<>> THEN Raise("ArcanaDesignError", "unrecognised_argument")
       ELSE Return([inputs |-> SelectSeq(method.args, LAMBDA a : In(a, column_names)),
                    parameters |-> SelectSeq(method.args,
                                        LAMBDA a : ~In(a, column_names) /\ In(a, param_names))])

\* the PipelineBuilder of one method with PIPELINE_ANNOTATIONS
PipelineOf(method, column_specs, parameters, attrs_klass) ==
    LET args == get_args_automagically(column_specs, parameters, method)
        condition == IF method.condition = None THEN Return(None)
                     ELSE UnresolvedOp_resolve(method.condition, column_specs, parameters)
    IN IF args.exc # "none" THEN args
       ELSE IF condition.exc # "none" THEN condition
       ELSE Return(PipelineBuilder(method.name, args.val.parameters, args.val.inputs,
                                   method.outputs, condition.val, method.switch,
                                   attrs_klass))

SwitchOf(method, column_specs, parameters, attrs_klass) ==
    LET args == get_args_automagically(column_specs, parameters, method)
    IN IF args.exc # "none" THEN args ELSE Return(Switch(method.name, attrs_klass))

CheckOf(method, column_specs, parameters, attrs_klass) ==
    LET args == get_args_automagically(column_specs, parameters, method)
    IN IF args.exc # "none" THEN args
       ELSE Return(Check(method.name, method.column, attrs_klass))

\* (a, b) < (c, d) for the str pairs of a mappings tuple
PairLess(p, q) ==
    \/ NameRank(p.first) < NameRank(q.first)
    \/ p.first = q.first /\ NameRank(p.second) < NameRank(q.second)

\* sorted(resolved_mappings)
RECURSIVE SortedPairs(_)
SortedPairs(tuple) ==
    IF tuple = <<>> THEN <<>>
    ELSE LET rest == SortedPairs(Tail(tuple))
             k == Cardinality({i \in 1..Len(rest) : PairLess(rest[i], Head(tuple))})
         IN SubSeq(rest, 1, k) \o <<Head(tuple)>> \o SubSeq(rest, k + 1, Len(rest))

\* the SubanalysisSpec of one subanalysis attribute: its explicit mappings and the
\* implicit ones of the columns and parameters mapped from it
SubanalysisOf(attr, column_specs, parameters, attrs_klass) ==
    LET mapped == SelectSeq(column_specs \o parameters,
                      LAMBDA c : Truthy(c.mapped_from) /\ c.mapped_from.first = attr.name)
        implicit == [i \in 1..Len(mapped) |-> Pair(mapped[i].mapped_from.second, mapped[i].name)]
    IN SubanalysisSpec(attr.name, attr.type, SortedPairs(attr.mappings \o implicit),
                       <<attrs_klass>>)

\* the ColumnSpec of a column attribute of the body; a mapped attribute carries
\* the salience it overwrites
ColumnOf(attr, attrs_klass) ==
    ColumnSpec(attr.name, attr.salience, <<attrs_klass>>,
               IF attr.mapped_from = None THEN None
               ELSE List(<<Pair("salience", Str(attr.salience))>>),
               attr.mapped_from)

\* the Parameter of a parameter attribute of the body
ParameterOf(attr, attrs_klass) ==
    Parameter(attr.name, attr.salience, attr.choices, attr.lower_bound, attr.upper_bound,
              <<attrs_klass>>, IF attr.mapped_from = None THEN None ELSE List(<<>>),
              attr.default, attr.mapped_from)

\* the specs of the class's own attributes and methods (before the base classes);
\* inherited lists its resolved inherited attributes
LocalSpecs(klass_body, inherited, attrs_klass) ==
    LET of(kind) == LET sel == SelectSeq(inherited, LAMBDA a : a.kind = kind)
                    IN [i \in 1..Len(sel) |-> sel[i].attr]
        column_specs == [i \in 1..Len(klass_body.columns) |->
                            ColumnOf(klass_body.columns[i], attrs_klass)] \o of("column")
        parameters == [i \in 1..Len(klass_body.parameters) |->
                          ParameterOf(klass_body.parameters[i], attrs_klass)]
                        \o of("parameter")
        defaults == FirstRaised([i \in 1..Len(parameters) |-> default_validator(parameters[i])])
        subanalyses == [i \in 1..Len(klass_body.subanalyses) |->
            SubanalysisOf(klass_body.subanalyses[i], column_specs, parameters, attrs_klass)]
        pipelines == [i \in 1..Len(klass_body.pipelines) |->
            PipelineOf(klass_body.pipelines[i], column_specs, parameters, attrs_klass)]
        switches == [i \in 1..Len(klass_body.switches) |->
            SwitchOf(klass_body.switches[i], column_specs, parameters, attrs_klass)]
        checks == [i \in 1..Len(klass_body.checks) |->
            CheckOf(klass_body.checks[i], column_specs, parameters, attrs_klass)]
        methods == FirstRaised(pipelines \o switches \o checks)
    IN IF defaults.exc # "none" THEN defaults
       ELSE IF methods.exc # "none" THEN methods
       ELSE Return([column_specs |-> column_specs, parameters |-> parameters,
                    subanalyses |-> subanalyses,
                    pipeline_builders |-> [i \in 1..Len(pipelines) |-> pipelines[i].val],
                    switches |-> [i \in 1..Len(switches) |-> switches[i].val],
                    checks |-> [i \in 1..Len(checks) |-> checks[i].val]])

\* Extend taking the base's entities first: a local entity gives way to the
\* one of the base with its name
Extend_BaseFirst(lst, base_lst) ==
    base_lst \o SelectSeq(lst, LAMBDA x : ~In(x.name, Names(base_lst)))

\* lst.extend(b for b in base_lst if b.name not in (x.name for x in lst))
Extend(lst, base_lst) ==
    lst \o SelectSeq(base_lst, LAMBDA b : ~In(b.name, Names(lst)))

\* SpaceRedefined comparing nothing: any space is accepted
SpaceRedefined_Never(base_spec, space) == base_spec.space # base_spec.space

\* base.__spec__.space is not space
SpaceRedefined(base_spec, space) == base_spec.space # space

\* Overwriting counting only the methods: an attribute is never reported
Overwriting_MethodsOnly(klass_body, base_lst) ==
    SelectSeq(Names(klass_body.pipelines) \o Names(klass_body.switches)
                  \o Names(klass_body.checks),
              LAMBDA nme : In(nme, Names(base_lst)))

\* the names of the class's __dict__ that are names of base_lst and whose
\* attribute has no metadata or no "defined_in" in it: every name but those
\* declared through Inherited
Overwriting(klass_body, base_lst) ==
    SelectSeq(Names(klass_body.columns) \o Names(klass_body.parameters)
                  \o Names(klass_body.subanalyses) \o Names(klass_body.pipelines)
                  \o Names(klass_body.switches) \o Names(klass_body.checks),
              LAMBDA nme : In(nme, Names(base_lst)))

\* MissingOutputs reporting nothing: an override may drop outputs
MissingOutputs_None(base_builder, pipeline_builders) ==
    SelectSeq(base_builder.outputs, LAMBDA o : ~In(o, base_builder.outputs))

\* the outputs of base_builder that the first local builder of its name lacks
\* (none when no local builder has the name)
MissingOutputs(base_builder, pipeline_builders) ==
    LET named == SelectSeq(pipeline_builders, LAMBDA b : b.name = base_builder.name)
    IN IF named = <<>> THEN <<>>
       ELSE SelectSeq(base_builder.outputs, LAMBDA o : ~In(o, named[1].outputs))

\* one iteration of "for base in attrs_klass.__mro__[1:]"
MergeBase(specs, klass_body, base_spec, space) ==
    LET removing == SelectSeq(base_spec.pipeline_builders,
                        LAMBDA bb : MissingOutputs(bb, specs.pipeline_builders) # <<>>)
    IN IF SpaceRedefined(base_spec, space) THEN Raise("ValueError", "redefine_space")
       ELSE IF \/ Overwriting(klass_body, base_spec.column_specs) # <<>>
               \/ Overwriting(klass_body, base_spec.parameters) # <<>>
               \/ Overwriting(klass_body, base_spec.subanalyses) # <<>>
           THEN Raise("ArcanaDesignError", "overwritten_without_inherited")
       ELSE IF removing # <<>>
           THEN Raise("ArcanaDesignError", "missing_outputs")
       ELSE Return([column_specs |-> Extend(specs.column_specs, base_spec.column_specs),
                    parameters |-> Extend(specs.parameters, base_spec.parameters),
                    subanalyses |-> Extend(specs.subanalyses, base_spec.subanalyses),
                    pipeline_builders |->
                        Extend(specs.pipeline_builders, base_spec.pipeline_builders),
                    switches |-> Extend(specs.switches, base_spec.switches),
                    checks |-> Extend(specs.checks, base_spec.checks)])

RECURSIVE MergeBases(_, _, _, _, _)

\* the loop over the base classes goes on after one iteration unless it raised
MergeRest(merged, klass_body, mro, space, reg) ==
    IF merged.exc # "none" THEN merged
    ELSE MergeBases(merged.val, klass_body, mro, space, reg)

\* "for base in attrs_klass.__mro__[1:]": mro lists the base classes, nearest
\* first; a class without __spec__ is skipped
MergeBases(specs, klass_body, mro, space, reg) ==
    IF mro = <<>> THEN Return(specs)
    ELSE IF reg[Head(mro)] = NoSpec
        THEN MergeBases(specs, klass_body, Tail(mro), space, reg)
    ELSE MergeRest(MergeBase(specs, klass_body, reg[Head(mro)], space),
                   klass_body, Tail(mro), space, reg)

\* a class being decorated: its __name__, the attributes and methods of its
\* __dict__, and its base classes (__mro__[1:-1])
Klass(name, klass_body, mro) == [name |-> name, body |-> klass_body, mro |-> mro]

\* the tuples of the merged lists, sorted by name, as they are when no validator
\* of AnalysisSpec looks at them
Unvalidated(space, merged) ==
    IF merged.exc # "none" THEN merged
    ELSE Return(SpecRecord(space,
                           SortedByName(merged.val.column_specs),
                           SortedByName(merged.val.pipeline_builders),
                           SortedByName(merged.val.parameters),
                           SortedByName(merged.val.switches),
                           SortedByName(merged.val.checks),
                           SortedByName(merged.val.subanalyses)))

\* lines 682-690: AnalysisSpec(...) of the merged lists, sorted by name
Validated(space, merged) ==
    IF merged.exc # "none" THEN merged
    ELSE AnalysisSpec(space,
                      SortedByName(merged.val.column_specs),
                      SortedByName(merged.val.pipeline_builders),
                      SortedByName(merged.val.parameters),
                      SortedByName(merged.val.switches),
                      SortedByName(merged.val.checks),
                      SortedByName(merged.val.subanalyses))

\* the local specs are combined with those of the base classes unless building
\* them raised
Combined(local, decorated_klass, space, reg) ==
    IF local.exc # "none" THEN local
    ELSE MergeBases(local.val, decorated_klass.body, decorated_klass.mro, space, reg)

\* make_class(decorated_klass, space), reg and klass_dicts being the __spec__ and
\* the __dict__ names of the classes that exist; the result's val is the __spec__
\* the class is given
make_class(decorated_klass, space, reg, klass_dicts) ==
    LET resolved == ResolveAttributes(decorated_klass.body, decorated_klass.mro, reg,
                                      klass_dicts)
    IN IF resolved.exc # "none" THEN resolved
       ELSE Validated(space,
                Combined(LocalSpecs(decorated_klass.body, resolved.val, decorated_klass.name),
                         decorated_klass, space, reg))


----------------------------------------------------------------------------
(* Analysis instances *)

NoAnalysis == [tag |-> "NoAnalysis"]

\* attrs.NOTHING
NOTHING == [tag |-> "NOTHING"]

\* the instance the attrs-generated __init__ of an assembled class builds: every
\* column is None, every parameter has its default, every subanalysis is a
\* Subanalysis wrapper (SubanalysisDefault) around a fresh instance of its type,
\* which is given attrs.NOTHING for every attribute that has a mapping
RECURSIVE Instantiate(_, _)
Instantiate(klass, reg) ==
    LET spec == reg[klass]
        columns == {spec.column_specs[i].name : i \in 1..Len(spec.column_specs)}
        parameters == {spec.parameters[i].name : i \in 1..Len(spec.parameters)}
        subanalyses == {spec.subanalyses[i].name : i \in 1..Len(spec.subanalyses)}
        parameter(n) == spec.parameters[CHOOSE i \in 1..Len(spec.parameters) :
                                            spec.parameters[i].name = n]
        subanalysis(n) == spec.subanalyses[CHOOSE i \in 1..Len(spec.subanalyses) :
                                              spec.subanalyses[i].name = n]
    IN [tag |-> "analysis", klass |-> klass,
        values |-> [n \in columns \cup parameters |->
                       IF n \in parameters THEN parameter(n).default ELSE None],
        subanalyses |-> [n \in subanalyses |->
                       [tag |-> "Subanalysis", spec |-> subanalysis(n),
                        analysis |->
                            [Instantiate(subanalysis(n).type, reg) EXCEPT !.values =
                                [a \in DOMAIN @ |->
                                    IF In(a, [i \in 1..Len(subanalysis(n).mappings) |->
                                                 subanalysis(n).mappings[i].first])
                                        THEN NOTHING ELSE @[a]]]]]]

\* getattr(analysis, name) for a str name
getattr(inst, name) ==
    IF name \in DOMAIN inst.values THEN Return(inst.values[name])
    ELSE IF name \in DOMAIN inst.subanalyses THEN Return(inst.subanalyses[name])
    ELSE Raise("AttributeError", "analysis_attribute")

\* the comparison with the lower bound alone
WithinBounds_LowerOnly(val, lower_bound, upper_bound) ==
    IF lower_bound # None /\ (lower_bound.tag # "int" \/ val.tag # "int")
        THEN Raise("TypeError", "not_supported_between")
        ELSE Return(Bool(lower_bound = None \/ val.val >= lower_bound.val))

\* val >= lower_bound and val <= upper_bound, a bound of None being no bound;
\* int and str values are not ordered with one another (TypeError)
WithinBounds(val, lower_bound, upper_bound) ==
    LET bounds == SelectSeq(<<lower_bound, upper_bound>>, LAMBDA b : b # None)
    IN IF \E i \in 1..Len(bounds) : bounds[i].tag # "int" \/ val.tag # "int"
           THEN Raise("TypeError", "not_supported_between")
       ELSE Return(Bool(/\ (lower_bound = None \/ val.val >= lower_bound.val)
                        /\ (upper_bound = None \/ val.val <= upper_bound.val)))

\* _parameter_validator
parameter_validator(parameter, val) ==
    LET within == WithinBounds(val, parameter.lower_bound, parameter.upper_bound)
    IN IF parameter.choices # None
           THEN IF ~In(val, parameter.choices.items)
                    THEN Raise("ValueError", "not_a_valid_value")
                    ELSE Return(None)
       ELSE IF within.exc # "none" THEN within
       ELSE IF ~within.val.val THEN Raise("ValueError", "not_within_bounds")
       ELSE Return(None)

\* what a Subanalysis wrapper reads (Subanalysis.__getattr__): a name with a
\* mapping reads the parent's attribute, any other the wrapped instance's
SubanalysisView(wrapper, parent) ==
    LET mapped(n) == SelectSeq(wrapper.spec.mappings, LAMBDA m : m.first = n)
    IN [wrapper.analysis EXCEPT !.values =
            [n \in DOMAIN wrapper.analysis.values |->
                IF mapped(n) # <<>> /\ mapped(n)[1].second \in DOMAIN parent.values
                    THEN parent.values[mapped(n)[1].second]
                    ELSE wrapper.analysis.values[n]]]

\* SubanalysisSpec.mapping
mapping(self, name) ==
    LET found == SelectSeq(self.mappings, LAMBDA m : m.first = name)
    IN IF found = <<>> THEN Raise("KeyError", "no_mapping") ELSE Return(Str(found[1].second))

\* Subanalysis.__getattr__ that never looks at the mappings
Subanalysis_getattr_Unmapped(self, parent, name) == getattr(self.analysis, name)

\* Subanalysis.__getattr__ for a name that is no attribute of the wrapper itself
Subanalysis_getattr(self, parent, name) ==
    LET mapped_name == mapping(self.spec, name)
    IN IF mapped_name.exc # "none" THEN getattr(self.analysis, name)
       ELSE getattr(parent, mapped_name.val.val)

\* setattr(analysis, name, value) for an instance of an assembled class, which has
\* slots: the validator of a parameter runs before the value is stored; the
\* result is the instance after the call
setattr(inst, name, value, reg) ==
    LET parameters == SelectSeq(reg[inst.klass].parameters, LAMBDA q : q.name = name)
        validation == parameter_validator(parameters[1], value)
    IN IF name \notin DOMAIN inst.values THEN Raise("AttributeError", "no_attribute")
       ELSE IF parameters # <<>> /\ validation.exc # "none" THEN validation
       ELSE Return([inst EXCEPT !.values[name] = value])

\* Subanalysis.__setattr__ that never looks at the mappings
Subanalysis_setattr_Unmapped(self, name, value, reg) == setattr(self.analysis, name, value, reg)

\* Subanalysis.__setattr__ for a name other than _spec, _analysis and _parent;
\* the result is the wrapped instance after the call
Subanalysis_setattr(self, name, value, reg) ==
    IF mapping(self.spec, name).exc = "none" THEN Raise("AttributeError", "mapped_attribute")
    ELSE setattr(self.analysis, name, value, reg)

----------------------------------------------------------------------------
(* Operation.evaluate *)

\* issubclass(format, in_format) for the formats of the model's datasets
IsSubclass(format, in_format) ==
    format = in_format \/ <<format, in_format>> \in {<<"Nifti", "Image">>}

\* getattr(operator_module, operator)(*operands) for the functions the model uses
operator_module(operator, operands) ==
    CASE operator = "eq" /\ Len(operands) = 2 -> Return(Bool(operands[1] = operands[2]))
      [] operator = "ne" /\ Len(operands) = 2 -> Return(Bool(operands[1] # operands[2]))
      [] operator = "and_" /\ Len(operands) = 2 ->
            Return(Bool(Truthy(operands[1]) /\ Truthy(operands[2])))
      [] operator = "or_" /\ Len(operands) = 2 ->
            Return(Bool(Truthy(operands[1]) \/ Truthy(operands[2])))
      [] operator \in {"eq", "ne", "and_", "or_"} -> Raise("TypeError", "operator_arguments")
      [] OTHER -> Raise("AttributeError", "operator_module")

\* Operation.evaluate(self, analysis, dataset): every operand is sent .evaluate,
\* which only an Operation has
RECURSIVE evaluate(_, _, _)
evaluate(self, inst, dataset) ==
    LET results == [i \in 1..Len(self.operands) |->
                      IF self.operands[i].tag = "Operation"
                          THEN evaluate(self.operands[i], inst, dataset)
                          ELSE Raise("AttributeError", "operand_has_no_evaluate")]
        raised == FirstRaised(results)
        operands == [i \in 1..Len(results) |-> results[i].val]
        column_name == getattr(inst, operands[1].val)
    IN IF raised.exc # "none" THEN raised
       ELSE IF self.operator = "value_of"
           THEN IF Len(operands) # 1 THEN Raise("AssertionError", "value_of")
                ELSE getattr(inst, operands[1].val)
       ELSE IF self.operator = "is_provided"
           THEN IF Len(operands) > 2 THEN Raise("AssertionError", "is_provided")
                ELSE IF Len(operands) = 0 THEN Raise("IndexError", "is_provided")
                ELSE IF column_name.exc # "none" THEN column_name
                ELSE IF column_name.val = None THEN Return(Bool(FALSE))
                ELSE IF column_name.val.val \notin DOMAIN dataset
                    THEN Raise("KeyError", "dataset_column")
                ELSE IF Len(operands) = 2
                    THEN Return(Bool(IsSubclass(dataset[column_name.val.val], operands[2].val)))
                ELSE Return(Bool(TRUE))
       ELSE operator_module(self.operator, operands)

\* the parameters of Operation.evaluate after self
evaluate_parameters == <<"analysis", "dataset">>

\* operation.evaluate(*args): the call binds args to evaluate's parameters
Call_evaluate(operation, args) ==
    IF Len(args) # Len(evaluate_parameters)
        THEN Raise("TypeError", "positional_arguments")
        ELSE evaluate(operation, args[1], args[2])

----------------------------------------------------------------------------
(* ColumnSpec.select_pipeline_builders *)

\* the attributes, properties and methods of an AnalysisSpec
AnalysisSpecAttributes ==
    {"space", "column_specs", "pipeline_builders", "parameters", "switches", "checks",
     "subanalyses", "column_names", "parameter_names", "pipeline_names", "switch_names",
     "check_names", "subanalysis_names", "column_spec", "parameter", "pipeline_builder",
     "switch", "check", "subanalysis", "column_checks", "column_specs_validator",
     "pipeline_builders_validator"}

\* AnalysisSpec.column_spec(name)
column_spec(spec, name) ==
    LET found == SelectSeq(spec.column_specs, LAMBDA c : c.name = name)
    IN IF found = <<>> THEN Raise("StopIteration", "column_spec") ELSE Return(found[1])

\* the name of the AnalysisSpec method that line 88 calls to look the column up
SubColumnLookup == "column"

RECURSIVE select_pipeline_builders(_, _, _, _)
select_pipeline_builders(self, inst, dataset, reg) ==
    LET candidates == SelectSeq(reg[inst.klass].pipeline_builders,
                                LAMBDA p : In(self.name, p.outputs))
        matches == [i \in 1..Len(candidates) |->
                      IF candidates[i].condition = None THEN Return(Bool(FALSE))
                      ELSE Call_evaluate(candidates[i].condition, <<self, inst, dataset>>)]
        raised == FirstRaised(matches)
        conditional == SelectSeq([i \in 1..Len(candidates) |-> i],
                                 LAMBDA i : Truthy(matches[i].val))
        selected == [k \in 1..Len(conditional) |-> candidates[conditional[k]]]
        defaults == IF selected # <<>> THEN selected
                    ELSE SelectSeq(candidates, LAMBDA p : p.condition = None)
        subanalysis == getattr(inst, self.mapped_from.first)
        sub_spec == reg[subanalysis.val.analysis.klass]
        sub_column_spec == column_spec(sub_spec, self.mapped_from.second)
        delegated ==
            IF subanalysis.exc # "none" THEN subanalysis
            ELSE IF SubColumnLookup \notin AnalysisSpecAttributes
                THEN Raise("AttributeError", "analysis_spec_attribute")
            ELSE IF sub_column_spec.exc # "none" THEN sub_column_spec
            ELSE select_pipeline_builders(sub_column_spec.val,
                                          SubanalysisView(subanalysis.val, inst),
                                          dataset, reg)
        delegates == defaults = <<>> /\ self.mapped_from # None
        final == IF delegates THEN delegated.val ELSE defaults
        all_switches == [i \in 1..Len(final) |-> final[i].switch]
        with_duplicate_switches ==
            SelectSeq(final, LAMBDA p : Count(all_switches, p.switch) # 0)
    IN IF raised.exc # "none" THEN raised
       ELSE IF delegates /\ delegated.exc # "none" THEN delegated
       ELSE IF final = <<>> THEN Raise("ArcanaDesignError", "no_pipeline_builders")
       ELSE IF with_duplicate_switches # <<>>
           THEN Raise("ArcanaDesignError", "multiple_pipelines_match")
       ELSE Return(final)


----------------------------------------------------------------------------
(* The class bodies and call arguments the model explores *)

\* the most declarations a class body of Spec holds
MaxDecls == 3

\* the most pipeline methods a class body of SpecDispatch holds
MaxBuilders == 2

BodySaliences == <<"primary", "publication", "supporting">>

\* the column attributes of the bodies of Spec: out, plain or mapped from the
\* subanalysis sub, and inp, at each salience
ColumnUniverse ==
    [i \in 1..3 |-> ColumnAttr("out", BodySaliences[i], None)]
        \o [i \in 1..3 |-> ColumnAttr("out", BodySaliences[i], Pair("sub", "inner"))]
        \o [i \in 1..3 |-> ColumnAttr("inp", BodySaliences[i], None)]

\* the pipeline methods over names, arguments, conditions and switches; all
\* produce column out
PipelineUniverse(names, args, conditions) ==
    LET switches == <<None, Str("sw")>>
        n == Len(names) * Len(args) * Len(conditions) * 2
    IN [i \in 1..n |->
           PipelineMethod(names[((i - 1) % Len(names)) + 1],
                          args[(((i - 1) \div Len(names)) % Len(args)) + 1],
                          <<"out">>,
                          conditions[(((i - 1) \div (Len(names) * Len(args)))
                                        % Len(conditions)) + 1],
                          switches[((i - 1) \div (Len(names) * Len(args) * Len(conditions))) + 1])]

Tagged(kind, decls) == [i \in 1..Len(decls) |-> [kind |-> kind, decl |-> decls[i]]]

\* every declaration a body of Spec can hold
Universe ==
    Tagged("column", ColumnUniverse)
        \o Tagged("pipeline", PipelineUniverse(<<"B1", "B2">>, <<<<>>, <<"inp">>>>, <<None, Fast>>))
        \o Tagged("parameter", <<ModeParameter>>)
        \o Tagged("switch", <<SwitchMethod("sw", <<>>)>>)
        \o Tagged("check", <<CheckMethod("chk", <<>>, "out")>>)
        \o Tagged("subanalysis", <<SubanalysisAttr("sub", "Sub", <<>>)>>)

\* the pipeline methods a body of SpecDispatch can hold
DispatchUniverse ==
    Tagged("pipeline", PipelineUniverse(<<"B1", "B2", "B3">>, <<<<>>>>, <<None, Fast, NotSlow>>))

\* the non-decreasing index sequences of at most n indices in lo..hi
RECURSIVE IndexSeqs(_, _, _)
IndexSeqs(n, lo, hi) ==
    IF n = 0 THEN {<<>>}
    ELSE {<<>>} \cup UNION {{<<i>> \o idx : idx \in IndexSeqs(n - 1, i, hi)} : i \in lo..hi}

\* the body holding the declarations universe[idx[1]], universe[idx[2]], ...
BodyOf(universe, idx) ==
    LET decls == [i \in 1..Len(idx) |-> universe[idx[i]]]
        of(kind) == LET sel == SelectSeq(decls, LAMBDA d : d.kind = kind)
                    IN [i \in 1..Len(sel) |-> sel[i].decl]
    IN [columns |-> of("column"), parameters |-> of("parameter"),
        subanalyses |-> of("subanalysis"), inherited |-> of("inherited"),
        pipelines |-> of("pipeline"),
        switches |-> of("switch"), checks |-> of("check")]

\* column out (plain, or mapped from sub.inner with the subanalysis sub declared),
\* the parameter mode, and up to MaxBuilders pipeline methods
DispatchBodies ==
    {[BodyOf(DispatchUniverse, idx) EXCEPT
        !.columns = <<ColumnAttr("out", "publication", mf)>>,
        !.parameters = <<ModeParameter>>,
        !.subanalyses = IF mf = None THEN <<>> ELSE <<SubanalysisAttr("sub", "Sub", <<>>)>>] :
        idx \in IndexSeqs(MaxBuilders, 1, Len(DispatchUniverse)),
        mf \in {None, Pair("sub", "inner")}}

\* the values written to a parameter
ParameterValues == {Str("fast"), Str("slow"), Str("turbo"), Int(0), Int(3), Int(5)}

\* the datasets passed to select_pipeline_builders: column name -> format
Datasets == {[n \in {"out"} |-> "Nifti"], [n \in {"inp", "out"} |-> "Image"]}

\* the base classes of Main, nearest first
Mros == {<<>>, <<"Base">>}

\* the classes that exist before the others are defined: Base and Sub, both assembled
InitialRegistry ==
    LET none == [k \in Classes |-> NoSpec]
        empty == [k \in Classes |-> <<>>]
    IN [k \in Classes |->
           CASE k = "Base" -> make_class(Klass("Base", BaseBody, <<>>), "Clinical", none, empty).val
             [] k = "Sub" -> make_class(Klass("Sub", SubBody, <<>>), "Clinical", none, empty).val
             [] OTHER -> NoSpec]

\* the names of the __dict__ of the classes of InitialRegistry
InitialDicts ==
    [k \in Classes |->
        CASE k = "Base" -> DictNames(BaseBody)
          [] k = "Sub" -> DictNames(SubBody)
          [] OTHER -> <<>>]

\* a class body is a dict: its attributes have distinct names (two methods can
\* share a __name__, as when a method is bound under a second name)
IsClassBody(klass_body) ==
    LET attrs == Names(klass_body.columns) \o Names(klass_body.parameters)
                    \o Names(klass_body.subanalyses) \o Names(klass_body.inherited)
    IN \A i, j \in 1..Len(attrs) : attrs[i] = attrs[j] => i = j

----------------------------------------------------------------------------
(* The cache of a RemoteStore and a DataTree, before any call *)

\* the processes that call the store
Procs == {"p1", "p2"}

\* the most versions the content of the entry goes through on the server
MaxVersion == 2

\* the checksums of the files of a version of the entry's content
Checksums(version) == [tag |-> "checksums", of |-> version]

\* a process outside any call of the store: op, exc and msg tell of its latest
\* call; cached, saved and checksums are what get_fileset found when it was
\* called (the cache directory, the checksum file, entry.checksums);
\* downloaded tells whether the call ran download_files, modified whether
\* dir_modtime(download_dir) differs from initial_mod_time, and left whether
\* the download directory existed when the call returned
NoProcess ==
    [pc |-> "idle", op |-> "none", cached |-> FALSE, saved |-> None, checksums |-> None,
     downloaded |-> FALSE, modified |-> FALSE, left |-> FALSE, exc |-> "none", msg |-> ""]

\* no cache directory (cache = 0), no checksum file, no download directory, the
\* first version on the server
InitialStore ==
    [cache |-> 0, md5 |-> None, download |-> FALSE, remote |-> 1,
     procs |-> [p \in Procs |-> NoProcess]]

\* DataTree.root is None
\* a DataTree of a dataset with the hierarchy, before enter: root is None. The
\* rows are those of root.children, each row carries its frequency, id and ids;
\* children holds the entries of the children dictionaries of the rows
EmptyTree(hierarchy) == [hierarchy |-> hierarchy, root |-> FALSE, rows |-> {}, children |-> {}]

NoTree == EmptyTree(<<>>)

----------------------------------------------------------------------------
(* The state machine *)

NoOutcome ==
    [op |-> "none", mro |-> <<>>, space |-> "", column |-> "", dataset |-> <<>>,
     operation |-> None, written |-> None, exc |-> "none", msg |-> "", val |-> None]

Outcome(op, result) == [NoOutcome EXCEPT !.op = op, !.exc = result.exc,
                                         !.msg = result.msg, !.val = result.val]

Init ==
    /\ body = EmptyBody
    /\ registry = InitialRegistry
    /\ dicts = InitialDicts
    /\ analysis = NoAnalysis
    /\ outcome = NoOutcome
    /\ store = InitialStore
    /\ tree = NoTree

InitDispatch ==
    /\ body \in DispatchBodies
    /\ registry = InitialRegistry
    /\ dicts = InitialDicts
    /\ analysis = NoAnalysis
    /\ outcome = NoOutcome
    /\ store = InitialStore
    /\ tree = NoTree

\* where a declaration stands in the universe
UniverseIndex(kind, decl) ==
    CHOOSE i \in 1..Len(Universe) : Universe[i] = [kind |-> kind, decl |-> decl]

\* the declarations of a body, with their kinds
Declarations(klass_body) ==
    Tagged("column", klass_body.columns) \o Tagged("pipeline", klass_body.pipelines)
        \o Tagged("parameter", klass_body.parameters) \o Tagged("switch", klass_body.switches)
        \o Tagged("check", klass_body.checks) \o Tagged("subanalysis", klass_body.subanalyses)
        \o Tagged("inherited", klass_body.inherited)

\* the body with one more declaration
WithDeclaration(klass_body, d) ==
    CASE d.kind = "column" -> [klass_body EXCEPT !.columns = Append(@, d.decl)]
      [] d.kind = "pipeline" -> [klass_body EXCEPT !.pipelines = Append(@, d.decl)]
      [] d.kind = "parameter" -> [klass_body EXCEPT !.parameters = Append(@, d.decl)]
      [] d.kind = "switch" -> [klass_body EXCEPT !.switches = Append(@, d.decl)]
      [] d.kind = "check" -> [klass_body EXCEPT !.checks = Append(@, d.decl)]
      [] d.kind = "subanalysis" -> [klass_body EXCEPT !.subanalyses = Append(@, d.decl)]
      [] d.kind = "inherited" -> [klass_body EXCEPT !.inherited = Append(@, d.decl)]

\* one more statement of the class body is executed, before the class is decorated:
\* a column(...), parameter(...) or subanalysis(...) attribute, or a decorated
\* method. make_class sorts what it collects by name, so the order of the
\* statements is immaterial and they are taken in the order of the universe
Declare ==
    /\ outcome = NoOutcome
    /\ Len(Declarations(body)) < MaxDecls
    /\ \E i \in 1..Len(Universe) :
          /\ \A k \in 1..Len(Declarations(body)) :
                UniverseIndex(Declarations(body)[k].kind, Declarations(body)[k].decl) <= i
          /\ body' = WithDeclaration(body, Universe[i])
    /\ UNCHANGED <<registry, dicts, analysis, outcome, store, tree>>

\* "@analysis(space) class Main(*mro)": make_class on the body; the class and its
\* __spec__ exist only when make_class returns
MakeClass ==
    /\ outcome = NoOutcome
    /\ registry["Main"] = NoSpec
    /\ IsClassBody(body)
    /\ \E mro \in Mros, space \in Spaces :
          \E result \in {make_class(Klass("Main", body, mro), space, registry, dicts)} :
             /\ registry' = IF result.exc = "none"
                                THEN [registry EXCEPT !["Main"] = result.val]
                                ELSE registry
             /\ dicts' = IF result.exc = "none"
                             THEN [dicts EXCEPT !["Main"] = DictNames(body)]
                             ELSE dicts
             /\ outcome' = [Outcome("make_class", result) EXCEPT !.mro = mro, !.space = space]
    /\ UNCHANGED <<body, analysis, store, tree>>

\* the tuples a direct caller of AnalysisSpec builds from the declarations
DirectBuilders(klass_body) ==
    [i \in 1..Len(klass_body.pipelines) |->
        PipelineBuilder(klass_body.pipelines[i].name, <<>>, klass_body.pipelines[i].args,
                        klass_body.pipelines[i].outputs,
                        ResolvedOperand(klass_body.pipelines[i].condition),
                        klass_body.pipelines[i].switch, "Main")]

\* AnalysisSpec(space, ...) called directly on the tuples of the declarations
Construct ==
    /\ outcome = NoOutcome
    /\ \E space \in Spaces :
          LET local == [i \in 1..Len(body.subanalyses) |->
                           SubanalysisSpec(body.subanalyses[i].name, body.subanalyses[i].type,
                                           body.subanalyses[i].mappings, <<"Main">>)]
              result == AnalysisSpec(space,
                            [i \in 1..Len(body.columns) |-> ColumnOf(body.columns[i], "Main")],
                            DirectBuilders(body),
                            [i \in 1..Len(body.parameters) |->
                                ParameterOf(body.parameters[i], "Main")],
                            [i \in 1..Len(body.switches) |->
                                Switch(body.switches[i].name, "Main")],
                            [i \in 1..Len(body.checks) |->
                                Check(body.checks[i].name, body.checks[i].column, "Main")],
                            local)
          IN outcome' = [Outcome("AnalysisSpec", result) EXCEPT !.space = space]
    /\ UNCHANGED <<body, registry, dicts, analysis, store, tree>>

\* Main(): the attrs-generated __init__, which validates every parameter's default
NewAnalysis ==
    /\ registry["Main"] # NoSpec
    /\ analysis = NoAnalysis
    /\ LET parameters == registry["Main"].parameters
           validation == FirstRaised([i \in 1..Len(parameters) |->
                             parameter_validator(parameters[i], parameters[i].default)])
       IN /\ analysis' = IF validation.exc = "none" THEN Instantiate("Main", registry)
                         ELSE analysis
          /\ outcome' = Outcome("__init__", validation)
    /\ UNCHANGED <<body, registry, dicts, store, tree>>

\* analysis.<name> = val for a parameter: the attrs on_setattr hook validates the
\* value before it is stored
SetParameter ==
    /\ analysis # NoAnalysis
    /\ \E i \in 1..Len(registry["Main"].parameters), val \in ParameterValues :
          LET parameter == registry["Main"].parameters[i]
              validation == parameter_validator(parameter, val)
          IN /\ analysis' = IF validation.exc = "none"
                                THEN [analysis EXCEPT !.values[parameter.name] = val]
                                ELSE analysis
             /\ outcome' = [Outcome("__setattr__", validation) EXCEPT
                               !.column = parameter.name, !.written = val]
    /\ UNCHANGED <<body, registry, dicts, store, tree>>

\* a select_pipeline_builders that stores what it returns in the column of the instance
Resolve_Storing ==
    /\ analysis # NoAnalysis
    /\ \E i \in 1..Len(registry["Main"].column_specs), dataset \in Datasets :
          \E result \in {select_pipeline_builders(registry["Main"].column_specs[i], analysis,
                                                  dataset, registry)} :
             /\ outcome' = [Outcome("select_pipeline_builders", result) EXCEPT
                               !.column = registry["Main"].column_specs[i].name,
                               !.dataset = dataset]
             /\ analysis' = [analysis EXCEPT !.values[registry["Main"].column_specs[i].name] =
                                                Str(result.exc)]
    /\ UNCHANGED <<body, registry, dicts, store, tree>>

\* column_spec.select_pipeline_builders(analysis, dataset) for a column of Main
Resolve ==
    /\ analysis # NoAnalysis
    /\ \E i \in 1..Len(registry["Main"].column_specs), dataset \in Datasets :
          LET self == registry["Main"].column_specs[i]
              result == select_pipeline_builders(self, analysis, dataset, registry)
          IN outcome' = [Outcome("select_pipeline_builders", result) EXCEPT
                            !.column = self.name, !.dataset = dataset]
    /\ UNCHANGED <<body, registry, dicts, analysis, store, tree>>

Next == Declare \/ MakeClass \/ Construct

Spec == Init /\ [][Next]_vars

NextDispatch == MakeClass \/ NewAnalysis \/ SetParameter \/ Resolve

SpecDispatch == InitDispatch /\ [][NextDispatch]_vars


----------------------------------------------------------------------------
(* A chain of classes: Mid(Base) and Main(Mid) *)

\* is_provided(out)
Provided == UnresolvedOp("is_provided", <<Attr("out")>>)

\* value_of(mode) == "fast" or is_provided(mode)
FastOrProvidedMode ==
    UnresolvedOp("or_", <<Fast, UnresolvedOp("is_provided", <<Attr("mode")>>)>>)

\* parameter n with bounds 1 and 3 and the given default
BoundedParameter(default) ==
    ParameterAttr("n", "recommended", None, Int(1), Int(3), default, None)

\* every declaration a body of SpecInherit can hold
InheritUniverse ==
    Tagged("column", <<ColumnAttr("out", "publication", None),
                       ColumnAttr("dataset", "primary", None)>>)
        \o Tagged("pipeline",
                <<PipelineMethod("B1", <<>>, <<"out">>, None, None),
                  PipelineMethod("B1", <<>>, <<"out", "inp">>, None, None),
                  PipelineMethod("B1", <<>>, <<"inp">>, None, None),
                  PipelineMethod("B1", <<"inp">>, <<"out">>, None, None),
                  PipelineMethod("B2", <<>>, <<"out">>, Fast, None),
                  PipelineMethod("B2", <<>>, <<"out">>, Provided, None),
                  PipelineMethod("B2", <<>>, <<"out">>, FastOrProvidedMode, None)>>)
        \o Tagged("parameter",
                <<ModeParameter,
                  ParameterAttr("mode", "recommended", List(<<Str("fast"), Str("slow")>>),
                                None, None, Str("turbo"), None),
                  BoundedParameter(Int(2)),
                  BoundedParameter(Int(5)),
                  BoundedParameter(None)>>)
        \o Tagged("switch", <<SwitchMethod("sw", <<>>)>>)
        \o Tagged("check", <<CheckMethod("chk", <<>>, "out")>>)
        \o Tagged("subanalysis", <<SubanalysisAttr("sub", "Sub", <<>>)>>)
        \o Tagged("inherited",
                <<InheritedAttr("out", <<>>),
                  InheritedAttr("out", <<Pair("salience", Str("supporting"))>>),
                  InheritedAttr("inp", <<>>),
                  InheritedAttr("mode", <<Pair("default", Str("fast"))>>),
                  InheritedAttr("sub", <<>>)>>)

\* the bodies of Mid under which the model goes on to define Main
MidBodies ==
    {EmptyBody,
     [EmptyBody EXCEPT !.parameters = <<ModeParameter>>,
                       !.switches = <<SwitchMethod("sw", <<>>)>>,
                       !.checks = <<CheckMethod("chk", <<>>, "out")>>],
     [EmptyBody EXCEPT !.inherited = <<InheritedAttr("out", <<Pair("salience", Str("supporting"))>>)>>,
                       !.pipelines = <<PipelineMethod("B1", <<>>, <<"out", "inp">>, None, None)>>],
     [EmptyBody EXCEPT !.subanalyses = <<SubanalysisAttr("sub", "Sub", <<>>)>>]}

\* where a declaration stands in InheritUniverse
InheritIndex(kind, decl) ==
    CHOOSE i \in 1..Len(InheritUniverse) : InheritUniverse[i] = [kind |-> kind, decl |-> decl]

\* one more statement of the body of the class being written (Mid, then Main)
DeclareInherit ==
    /\ outcome = NoOutcome
    /\ Len(Declarations(body)) < MaxDecls
    /\ \E i \in 1..Len(InheritUniverse) :
          /\ \A k \in 1..Len(Declarations(body)) :
                InheritIndex(Declarations(body)[k].kind, Declarations(body)[k].decl) <= i
          /\ body' = WithDeclaration(body, InheritUniverse[i])
    /\ UNCHANGED <<registry, dicts, analysis, outcome, store, tree>>

\* the class that the body is the body of: Mid, and Main once Mid exists
NextKlass == IF registry["Mid"] = NoSpec THEN "Mid" ELSE "Main"

\* the base classes of a class of the chain, nearest first
ChainMro(klass) == IF klass = "Mid" THEN <<"Base">> ELSE <<"Mid", "Base">>

\* "@analysis(space) class Mid(Base)" or "@analysis(space) class Main(Mid)": the
\* class and its __spec__ exist only when make_class returns
Subclass ==
    /\ outcome = NoOutcome
    /\ registry["Main"] = NoSpec
    /\ IsClassBody(body)
    /\ \E space \in Spaces :
          \E klass \in {NextKlass} :
          \E result \in {make_class(Klass(klass, body, ChainMro(klass)), space, registry, dicts)} :
             /\ registry' = IF result.exc = "none"
                                THEN [registry EXCEPT ![klass] = result.val]
                                ELSE registry
             /\ dicts' = IF result.exc = "none"
                             THEN [dicts EXCEPT ![klass] = DictNames(body)]
                             ELSE dicts
             /\ outcome' = [Outcome("make_class", result) EXCEPT
                               !.mro = ChainMro(klass), !.space = space]
    /\ UNCHANGED <<body, analysis, store, tree>>

\* the class statement of Main begins after Mid has been defined
NextClass ==
    /\ outcome.op = "make_class"
    /\ outcome.exc = "none"
    /\ registry["Main"] = NoSpec
    /\ body \in MidBodies
    /\ body' = EmptyBody
    /\ outcome' = NoOutcome
    /\ UNCHANGED <<registry, dicts, analysis, store, tree>>

NextInherit == DeclareInherit \/ Subclass \/ NextClass

SpecInherit == Init /\ [][NextInherit]_vars

----------------------------------------------------------------------------
(* Conditions evaluated on an instance *)

\* a data format (a class) as the second operand of is_provided
Format(name) == [tag |-> "type", val |-> name]

\* is_provided(out, Image)
ProvidedAs == UnresolvedOp("is_provided", <<Attr("out"), Format("Image")>>)

\* value_of(mode)
ValueOfMode == UnresolvedOp("value_of", <<Attr("mode")>>)

\* (value_of(mode) == "fast") & is_provided(out)
FastAndProvided == UnresolvedOp("and_", <<Fast, Provided>>)

\* (value_of(mode) == "fast") | is_provided(out)
FastOrProvided == UnresolvedOp("or_", <<Fast, Provided>>)

\* ~(value_of(mode) == "fast")
NotFast == UnresolvedOp("invert_", <<Fast>>)

\* the conditions of the pipeline B2 of a body of SpecEvaluate
Conditions ==
    {Provided, ProvidedAs, ValueOfMode, Fast, NotSlow, FastAndProvided, FastOrProvided, NotFast}

\* columns out and inp, the parameter mode, B1 producing out from inp, and B2
\* producing out under a condition
EvaluateBodies ==
    {[EmptyBody EXCEPT
        !.columns = <<ColumnAttr("inp", "primary", None), ColumnAttr("out", "publication", None)>>,
        !.parameters = <<ModeParameter>>,
        !.pipelines = <<PipelineMethod("B1", <<"inp">>, <<"out">>, None, None),
                        PipelineMethod("B2", <<"inp">>, <<"out">>, condition, None)>>] :
        condition \in Conditions}

InitEvaluate ==
    /\ body \in EvaluateBodies
    /\ registry = InitialRegistry
    /\ dicts = InitialDicts
    /\ analysis = NoAnalysis
    /\ outcome = NoOutcome
    /\ store = InitialStore
    /\ tree = NoTree

\* the names of dataset columns bound to a column of the instance, and None
ColumnValues == {None, Str("inp"), Str("out")}

\* analysis.<name> = val for a column: the attrs field of a column has no validator
SetColumn ==
    /\ analysis # NoAnalysis
    /\ \E i \in 1..Len(registry["Main"].column_specs), val \in ColumnValues :
          /\ analysis' = [analysis EXCEPT !.values[registry["Main"].column_specs[i].name] = val]
          /\ outcome' = [Outcome("__setattr__", Return(None)) EXCEPT
                            !.column = registry["Main"].column_specs[i].name, !.written = val]
    /\ UNCHANGED <<body, registry, dicts, store, tree>>

\* builder.condition.evaluate(analysis, dataset) for a builder of Main with a condition
Evaluate ==
    /\ analysis # NoAnalysis
    /\ \E i \in 1..Len(registry["Main"].pipeline_builders), dataset \in Datasets :
          /\ registry["Main"].pipeline_builders[i].condition # None
          /\ \E result \in {Call_evaluate(registry["Main"].pipeline_builders[i].condition,
                                           <<analysis, dataset>>)} :
                outcome' = [Outcome("evaluate", result) EXCEPT
                               !.operation = registry["Main"].pipeline_builders[i].condition,
                               !.dataset = dataset]
    /\ UNCHANGED <<body, registry, dicts, analysis, store, tree>>

NextEvaluate == MakeClass \/ NewAnalysis \/ SetParameter \/ SetColumn \/ Evaluate

SpecEvaluate == InitEvaluate /\ [][NextEvaluate]_vars

----------------------------------------------------------------------------
(* Writes of parameters *)

\* parameter n with the given bounds and default
RangeParameter(lower_bound, upper_bound, default) ==
    ParameterAttr("n", "recommended", None, lower_bound, upper_bound, default, None)

\* columns inp and out, B1 producing out from inp, the parameter mode with its
\* choices and the parameter n with a lower bound, an upper bound, both or none
ParameterBodies ==
    {[BaseBody EXCEPT
        !.parameters = <<ModeParameter, RangeParameter(lower_bound, upper_bound, default)>>] :
        lower_bound \in {None, Int(1)}, upper_bound \in {None, Int(3)},
        default \in {Int(2), Int(5)}}

InitParameters ==
    /\ body \in ParameterBodies
    /\ registry = InitialRegistry
    /\ dicts = InitialDicts
    /\ analysis = NoAnalysis
    /\ outcome = NoOutcome
    /\ store = InitialStore
    /\ tree = NoTree

NextParameters == MakeClass \/ NewAnalysis \/ SetParameter

SpecParameters == InitParameters /\ [][NextParameters]_vars

----------------------------------------------------------------------------
(* Subanalysis wrappers *)

\* column inp feeds B1, which produces column out unless out is mapped from
\* sub.inner; the subanalysis sub, with or without the explicit mapping of its
\* inner to out; and the parameter mode or none
SubanalysisBodies ==
    {[BaseBody EXCEPT
        !.columns = <<ColumnAttr("inp", "primary", None),
                      ColumnAttr("out", "publication", mapped_from)>>,
        !.parameters = parameters,
        !.subanalyses = <<SubanalysisAttr("sub", "Sub", mappings)>>] :
        mapped_from \in {None, Pair("sub", "inner")},
        mappings \in {<<>>, <<Pair("inner", "out")>>},
        parameters \in {<<>>, <<ModeParameter>>}}

InitSubanalysis ==
    /\ body \in SubanalysisBodies
    /\ registry = InitialRegistry
    /\ dicts = InitialDicts
    /\ analysis = NoAnalysis
    /\ outcome = NoOutcome
    /\ store = InitialStore
    /\ tree = NoTree

\* the names read and written on a wrapper
WrappedNames == {"inner", "out", "bogus"}

\* analysis.<subanalysis>.<name>
GetWrapped ==
    /\ analysis # NoAnalysis
    /\ \E sub \in DOMAIN analysis.subanalyses, name \in WrappedNames :
          outcome' = [Outcome("Subanalysis.__getattr__",
                              Subanalysis_getattr(analysis.subanalyses[sub], analysis, name))
                         EXCEPT !.column = name, !.operation = Str(sub)]
    /\ UNCHANGED <<body, registry, dicts, analysis, store, tree>>

\* analysis.<subanalysis>.<name> = val
SetWrapped ==
    /\ analysis # NoAnalysis
    /\ \E sub \in DOMAIN analysis.subanalyses, name \in WrappedNames, val \in ColumnValues :
          \E result \in {Subanalysis_setattr(analysis.subanalyses[sub], name, val, registry)} :
             /\ analysis' = IF result.exc = "none"
                                THEN [analysis EXCEPT !.subanalyses[sub].analysis = result.val]
                                ELSE analysis
             /\ outcome' = [Outcome("Subanalysis.__setattr__",
                                    IF result.exc = "none" THEN Return(None) ELSE result)
                               EXCEPT !.column = name, !.operation = Str(sub), !.written = val]
    /\ UNCHANGED <<body, registry, dicts, store, tree>>

NextSubanalysis == MakeClass \/ NewAnalysis \/ SetColumn \/ GetWrapped \/ SetWrapped

SpecSubanalysis == InitSubanalysis /\ [][NextSubanalysis]_vars

----------------------------------------------------------------------------
(* RemoteStore.get_fileset and put_fileset on the cache of one entry *)

\* the call of a process ends with exception e
Failed(process, e, m) == [process EXCEPT !.pc = "idle", !.exc = e, !.msg = m]

\* the download directory is modified: dir_modtime(download_dir) is no longer the
\* initial_mod_time of a process that sleeps in _delayed_download
Touched(procs) ==
    [q \in Procs |-> IF procs[q].pc = "sleep" THEN [procs[q] EXCEPT !.modified = TRUE]
                     ELSE procs[q]]

\* get_fileset up to the decision whether to download; entry.checksums are the
\* checksums of the content on the server. cached_checksums is assigned only
\* when the checksum file exists
GetFileset ==
    /\ \E p \in Procs :
          /\ store.procs[p].pc = "idle"
          /\ \E called \in {[NoProcess EXCEPT !.op = "get_fileset",
                                             !.cached = store.cache # 0,
                                             !.saved = store.md5,
                                             !.checksums = Checksums(store.remote)]} :
                store' = [store EXCEPT !.procs[p] =
                    IF store.cache # 0 /\ store.md5 = None
                        THEN Failed(called, "UnboundLocalError", "cached_checksums")
                    ELSE IF store.cache # 0 /\ store.md5 = called.checksums
                        THEN [called EXCEPT !.pc = "return"]
                    ELSE [called EXCEPT !.pc = "makedirs"]]
    /\ UNCHANGED <<body, registry, dicts, analysis, outcome, tree>>

\* os.makedirs(download_dir); when the directory exists, the call of
\* _delayed_download first reads self._race_cond_delay, an attribute that
\* RemoteStore does not define and that a base class may or may not have
Makedirs ==
    /\ \E p \in Procs :
          /\ store.procs[p].pc = "makedirs"
          /\ IF ~store.download
                 THEN store' = [store EXCEPT
                         !.download = TRUE,
                         !.procs = [Touched(store.procs) EXCEPT ![p].pc = "download_files"]]
                 ELSE \E has_race_cond_delay \in BOOLEAN :
                         store' = [store EXCEPT !.procs[p] =
                             IF has_race_cond_delay THEN [@ EXCEPT !.pc = "delayed_download"]
                             ELSE Failed(@, "AttributeError", "race_cond_delay")]
    /\ UNCHANGED <<body, registry, dicts, analysis, outcome, tree>>

\* _delayed_download up to time.sleep: initial_mod_time = dir_modtime(download_dir),
\* which may raise for a directory that is not there any more
DelayedDownload ==
    /\ \E p \in Procs, raises \in BOOLEAN :
          /\ store.procs[p].pc = "delayed_download"
          /\ raises => ~store.download
          /\ store' = [store EXCEPT !.procs[p] =
                IF raises THEN Failed(@, "ValueError", "dir_modtime")
                ELSE [@ EXCEPT !.pc = "sleep", !.modified = FALSE]]
    /\ UNCHANGED <<body, registry, dicts, analysis, outcome, tree>>

\* _delayed_download after time.sleep: return when the target exists, wait again
\* when the directory was modified, else clear the directory and download
Wake ==
    /\ \E p \in Procs :
          /\ store.procs[p].pc = "sleep"
          /\ store' =
                IF store.cache # 0 THEN [store EXCEPT !.procs[p].pc = "save"]
                ELSE IF ~store.download
                    THEN [store EXCEPT !.procs[p] = Failed(@, "ValueError", "dir_modtime")]
                ELSE IF store.procs[p].modified
                    THEN [store EXCEPT !.procs[p].pc = "delayed_download"]
                ELSE [store EXCEPT
                         !.procs = [Touched(store.procs) EXCEPT ![p].pc = "restart_download",
                                                               ![p].modified = FALSE]]
    /\ UNCHANGED <<body, registry, dicts, analysis, outcome, tree>>

\* download_files writes into the download directory
Progress ==
    /\ \E p \in Procs : store.procs[p].pc \in {"download_files", "restart_download"}
    /\ Touched(store.procs) # store.procs
    /\ store' = [store EXCEPT !.procs = Touched(store.procs)]
    /\ UNCHANGED <<body, registry, dicts, analysis, outcome, tree>>

\* download_files of get_fileset returns: the target path holds the content of
\* the server
FinishDownload ==
    /\ \E p \in Procs :
          /\ store.procs[p].pc = "download_files"
          /\ store' = [store EXCEPT !.cache = store.remote,
                                    !.procs[p].pc = "rmtree",
                                    !.procs[p].downloaded = TRUE]
    /\ UNCHANGED <<body, registry, dicts, analysis, outcome, tree>>

\* the process is interrupted inside download_files and leaves the directory
Interrupt ==
    /\ \E p \in Procs :
          /\ store.procs[p].pc = "download_files"
          /\ store' = [store EXCEPT !.procs[p] = Failed(@, "KeyboardInterrupt", "download_files")]
    /\ UNCHANGED <<body, registry, dicts, analysis, outcome, tree>>

\* shutil.rmtree(download_dir) after download_files in get_fileset
Rmtree ==
    /\ \E p \in Procs :
          /\ store.procs[p].pc = "rmtree"
          /\ store' = IF store.download
                          THEN [store EXCEPT !.download = FALSE, !.procs[p].pc = "save"]
                          ELSE [store EXCEPT
                                   !.procs[p] = Failed(@, "FileNotFoundError", "rmtree")]
    /\ UNCHANGED <<body, registry, dicts, analysis, outcome, tree>>

\* download_files of _delayed_download returns, and _delayed_download with it
FinishRestart ==
    /\ \E p \in Procs :
          /\ store.procs[p].pc = "restart_download"
          /\ store' = [store EXCEPT !.cache = store.remote,
                                    !.procs[p].pc = "save",
                                    !.procs[p].downloaded = TRUE]
    /\ UNCHANGED <<body, registry, dicts, analysis, outcome, tree>>

\* checksums = self.get_checksums(entry.uri), written to the checksum file
SaveChecksums ==
    /\ \E p \in Procs :
          /\ store.procs[p].pc = "save"
          /\ store' = [store EXCEPT !.md5 = Checksums(store.remote), !.procs[p].pc = "return"]
    /\ UNCHANGED <<body, registry, dicts, analysis, outcome, tree>>

\* return datatype(cache_path.iterdir())
ReturnFileset ==
    /\ \E p \in Procs :
          /\ store.procs[p].pc = "return"
          /\ store' = [store EXCEPT !.procs[p] =
                IF store.cache = 0 THEN Failed(@, "FileNotFoundError", "iterdir")
                ELSE [@ EXCEPT !.pc = "idle", !.left = store.download]]
    /\ UNCHANGED <<body, registry, dicts, analysis, outcome, tree>>

\* put_fileset of a file-set with the content of one version: the cache
\* directory is replaced by a copy, the files are uploaded, and the checksum
\* file is written when the checksums of the server are those of the copy
PutFileset ==
    /\ \E p \in Procs, fileset \in 1..MaxVersion, uploaded \in 1..MaxVersion :
          /\ store.procs[p].pc = "idle"
          /\ \E called \in {[NoProcess EXCEPT !.op = "put_fileset"]} :
                store' =
                    IF Checksums(uploaded) # Checksums(fileset)
                        THEN [store EXCEPT
                                 !.cache = fileset, !.remote = uploaded,
                                 !.procs[p] = Failed(called, "ArcanaError", "checksums")]
                        ELSE [store EXCEPT
                                 !.cache = fileset, !.remote = uploaded,
                                 !.md5 = Checksums(uploaded),
                                 !.procs[p] = called]
    /\ UNCHANGED <<body, registry, dicts, analysis, outcome, tree>>

\* the content of the entry is changed on the server
RemoteChange ==
    /\ \E version \in 1..MaxVersion :
          /\ version # store.remote
          /\ store' = [store EXCEPT !.remote = version]
    /\ UNCHANGED <<body, registry, dicts, analysis, outcome, tree>>

NextStore ==
    \/ GetFileset \/ Makedirs \/ DelayedDownload \/ Wake \/ Progress \/ FinishDownload
    \/ Interrupt \/ Rmtree \/ FinishRestart \/ SaveChecksums \/ ReturnFileset \/ PutFileset
    \/ RemoteChange

SpecStore == Init /\ [][NextStore]_vars

----------------------------------------------------------------------------
(* DataTree.add_leaf over a data space of two axes *)

\* the frequencies of the space in the order of their values: the axes b (the
\* least significant bit) and a, their combination ab and the root
TreeSpace == <<"root", "b", "a", "ab">>

\* the axes of a frequency, the least significant last
span(freq) ==
    CASE freq = "root" -> <<>>
      [] freq = "b" -> <<"b">>
      [] freq = "a" -> <<"a">>
      [] freq = "ab" -> <<"a", "b">>

bits(freq) == {span(freq)[i] : i \in DOMAIN span(freq)}

MaxPath == 2
Labels == {"x", "y"}

\* the hierarchies of a dataset: layers of the space, none of them twice
Hierarchies ==
    {<<"a">>, <<"ab">>, <<"a", "b">>, <<"b", "a">>, <<"a", "ab">>, <<"b", "ab">>,
     <<"ab", "a">>, <<"ab", "b">>}

TreePaths == UNION {[1..n -> Labels] : n \in 1..MaxPath}

\* ids[key] = value
SetId(ids, key, value) ==
    [f \in DOMAIN ids \cup {key} |-> IF f = key THEN value ELSE ids[f]]

\* dict(zip(self.dataset.hierarchy, tree_path))
ZipIds(hierarchy, tree_path) ==
    [f \in {hierarchy[i] : i \in DOMAIN hierarchy} |->
        Str(tree_path[CHOOSE i \in DOMAIN hierarchy : hierarchy[i] = f])]

\* the body of the loop over the layers of the hierarchy for one layer: the
\* axes of a layer that shares no axis with the layers before it, and of which
\* no axis has an id, get None, the least significant one the id of the layer
LayerIds(ids, row_frequency, layer_str) ==
    IF /\ bits(layer_str) \cap row_frequency = {}
       /\ \A i \in DOMAIN span(layer_str) : span(layer_str)[i] \notin DOMAIN ids
        THEN [f \in DOMAIN ids \cup bits(layer_str) |->
                 IF f = span(layer_str)[Len(span(layer_str))] THEN ids[layer_str]
                 ELSE IF f \in bits(layer_str) THEN None
                 ELSE ids[f]]
        ELSE ids

RECURSIVE LayersIds(_, _, _, _)
\* the loop over the layers from layer i on; the result has the ids and the
\* combined row_frequency
LayersIds(hierarchy, ids, row_frequency, i) ==
    IF i > Len(hierarchy) THEN [ids |-> ids, row_frequency |-> row_frequency]
    ELSE LayersIds(hierarchy, LayerIds(ids, row_frequency, hierarchy[i]),
                   row_frequency \cup bits(hierarchy[i]), i + 1)

\* tuple(ids[str(b)] for b in freq.span() if ids[str(b)] is not None), with a
\* tuple of one id replaced by that id; NOTHING for the empty tuple
CompositeId(ids, freq) ==
    IF ids["a"] # None /\ ids["b"] # None THEN Pair(ids["a"], ids["b"])
    ELSE IF ids["a"] # None THEN ids["a"]
    ELSE IF ids["b"] # None THEN ids["b"]
    ELSE NOTHING

\* the ids after the composite ids of the frequencies outside the span of the
\* row frequency were added; the root has no axes and gets none
WithComposite(ids) ==
    IF "ab" \in DOMAIN ids \/ CompositeId(ids, "ab") = NOTHING THEN ids
    ELSE SetId(ids, "ab", CompositeId(ids, "ab"))

\* {f: ids.get(str(f)) for f in self.dataset.space}
AllIds(ids) ==
    [f \in {TreeSpace[i] : i \in DOMAIN TreeSpace} |-> IF f \in DOMAIN ids THEN ids[f] ELSE None]

\* DataRow(ids=ids, frequency=row_frequency, dataset=self.dataset)
DataRow(ids, frequency) == [frequency |-> frequency, id |-> ids[frequency], ids |-> ids]

\* self.dataset.row(frequency, id) finds a row
HasRow(rows, frequency, id) == \E r \in rows : r.frequency = frequency /\ r.id = id

\* the ids of a parent row that is created for a row
ParentIds(row, parent_freq) ==
    [f \in {g \in DOMAIN row.ids : bits(g) \subseteq bits(parent_freq)} |-> row.ids[f]]

\* the frequency of the axes of a row that its parent does not have
DiffFreq(frequency, parent_freq) ==
    CHOOSE f \in {TreeSpace[i] : i \in DOMAIN TreeSpace} :
        bits(f) = bits(frequency) \ bits(parent_freq)

\* children_dict[diff_id] = row, unless diff_id is in children_dict
LinkChild(t, row, parent_freq) ==
    IF t.exc # "none" THEN t
    ELSE IF \E c \in t.children :
               /\ c.parent = <<parent_freq, row.ids[parent_freq]>>
               /\ c.frequency = row.frequency
               /\ c.diff_id = row.ids[DiffFreq(row.frequency, parent_freq)]
        THEN [t EXCEPT !.exc = "ArcanaDataTreeConstructionError", !.msg = "children"]
    ELSE [t EXCEPT !.children = @ \cup
             {[parent |-> <<parent_freq, row.ids[parent_freq]>>,
               frequency |-> row.frequency,
               diff_id |-> row.ids[DiffFreq(row.frequency, parent_freq)],
               child |-> <<row.frequency, row.id>>]}]

RECURSIVE add_row(_, _, _)
RECURSIVE LinkParents(_, _, _)
\* the loop of _add_row over row.ids.items() from the i-th frequency on
LinkParents(t, row, i) ==
    IF t.exc # "none" \/ i > Len(TreeSpace) THEN t
    ELSE IF \/ TreeSpace[i] \notin DOMAIN row.ids
            \/ TreeSpace[i] = "root"
            \/ bits(row.frequency) \ bits(TreeSpace[i]) = {}
        THEN LinkParents(t, row, i + 1)
    ELSE IF HasRow(t.rows, TreeSpace[i], row.ids[TreeSpace[i]])
        THEN LinkParents(LinkChild(t, row, TreeSpace[i]), row, i + 1)
    ELSE LinkParents(
             LinkChild(add_row(t, ParentIds(row, TreeSpace[i]), TreeSpace[i]), row, TreeSpace[i]),
             row, i + 1)

\* _add_row: the row is put into root.children before its parents are linked
add_row(t, ids, row_frequency) ==
    IF HasRow(t.rows, row_frequency, ids[row_frequency])
        THEN [t EXCEPT !.exc = "ArcanaDataTreeConstructionError", !.msg = "rows"]
        ELSE LinkParents([t EXCEPT !.rows = @ \cup {DataRow(ids, row_frequency)}],
                         DataRow(ids, row_frequency), 1)

\* add_leaf after the root was set; layered has the ids and the row frequency
\* after the loop over the layers
AddLeafRow(t, layered) ==
    IF layered.row_frequency # bits("ab")
        THEN [t EXCEPT !.exc = "AssertionError", !.msg = "row_frequency"]
        ELSE add_row(t, AllIds(WithComposite(layered.ids)), "ab")

\* add_leaf(tree_path) on the tree: the rows and children afterwards, and the
\* exception raised
add_leaf(self, tree_path) ==
    IF Len(tree_path) # Len(self.hierarchy)
        THEN [rows |-> self.rows, children |-> self.children,
              exc |-> "ArcanaDataTreeConstructionError", msg |-> "tree_path"]
        ELSE AddLeafRow([rows |-> self.rows, children |-> self.children,
                         exc |-> "none", msg |-> ""],
                        LayersIds(self.hierarchy, ZipIds(self.hierarchy, tree_path), {}, 1))

InitTree ==
    /\ body = EmptyBody
    /\ registry = InitialRegistry
    /\ dicts = InitialDicts
    /\ analysis = NoAnalysis
    /\ outcome = NoOutcome
    /\ store = InitialStore
    /\ tree \in {EmptyTree(hierarchy) : hierarchy \in Hierarchies}

\* a call of add_leaf; the root is set before anything is checked
AddLeaf ==
    /\ \E tree_path \in TreePaths :
          \E result \in {add_leaf(tree, tree_path)} :
             /\ tree' = [tree EXCEPT !.root = TRUE, !.rows = result.rows,
                                     !.children = result.children]
             /\ outcome' = [NoOutcome EXCEPT !.op = "add_leaf", !.exc = result.exc,
                                             !.msg = result.msg,
                                             !.written = List([i \in DOMAIN tree_path |->
                                                                  Str(tree_path[i])])]
    /\ UNCHANGED <<body, registry, dicts, analysis, store>>

\* DataTree.exit
Exit ==
    /\ tree.root
    /\ tree' = EmptyTree(tree.hierarchy)
    /\ outcome' = [NoOutcome EXCEPT !.op = "exit"]
    /\ UNCHANGED <<body, registry, dicts, analysis, store>>

NextTree == AddLeaf \/ Exit

SpecTree == InitTree /\ [][NextTree]_vars


----------------------------------------------------------------------------
(* What the claims speak of *)

\* the latest call resolved column c of Main
Resolved(c) == outcome.op = "select_pipeline_builders" /\ outcome.column = c

\* the builders of Main that list column c among their outputs
Candidates(c) == Producers(registry["Main"].pipeline_builders, c)

\* the value a condition has on the instance according to section 4.1 of the
\* specification: value_of reads the parameter, a literal is itself
RECURSIVE ConditionValue(_)
ConditionValue(operand) ==
    IF operand.tag # "Operation" THEN operand
    ELSE IF operand.operator = "value_of" THEN analysis.values[operand.operands[1].val]
    ELSE IF operand.operator = "eq"
        THEN Bool(ConditionValue(operand.operands[1]) = ConditionValue(operand.operands[2]))
    ELSE Bool(ConditionValue(operand.operands[1]) # ConditionValue(operand.operands[2]))

\* the candidates for c whose condition is not None and is true
TrueCandidates(c) ==
    SelectSeq(Candidates(c), LAMBDA p : p.condition # None /\ ConditionValue(p.condition).val)

\* the candidates for c whose condition is not None and is false
FalseCandidates(c) ==
    SelectSeq(Candidates(c), LAMBDA p : p.condition # None /\ ~ConditionValue(p.condition).val)

\* the candidates for c that have no condition
Unconditional(c) == SelectSeq(Candidates(c), LAMBDA p : p.condition = None)

\* steps 2 and 3 of section 4.5: the true conditional candidates, else the defaults
Selection(c) == IF TrueCandidates(c) # <<>> THEN TrueCandidates(c) ELSE Unconditional(c)

\* two builders of the tuple have the same switch
SharesSwitch(builders) ==
    \E i, j \in 1..Len(builders) : i # j /\ builders[i].switch = builders[j].switch

\* the column spec of Main named c
MainColumn(c) == column_spec(registry["Main"], c).val

\* C1: with one conditional builder whose condition is true and one unconditional
\* builder for column out, resolving out returns the conditional builder alone
C1_TrueConditionSelected ==
    (/\ Resolved("out")
     /\ Len(Candidates("out")) = 2
     /\ Len(TrueCandidates("out")) = 1
     /\ Len(Unconditional("out")) = 1)
        => outcome.exc = "none" /\ outcome.val = TrueCandidates("out")

\* C2: with one conditional builder whose condition is false and one unconditional
\* builder for column out, resolving out returns the unconditional builder
C2_DefaultFallback ==
    (/\ Resolved("out")
     /\ Len(Candidates("out")) = 2
     /\ Len(FalseCandidates("out")) = 1
     /\ Len(Unconditional("out")) = 1)
        => outcome.exc = "none" /\ outcome.val = Unconditional("out")

\* C3: the 'multiple potential pipelines' error is raised only when two of the
\* selected builders share a switch; a non-empty selection with pairwise
\* different switches raises no ambiguity error
C3_StrictCount ==
    Resolved("out") =>
        /\ outcome.msg = "multiple_pipelines_match" => SharesSwitch(Selection("out"))
        /\ (Selection("out") # <<>> /\ ~SharesSwitch(Selection("out")))
              => outcome.msg # "multiple_pipelines_match"

\* C4: two builders for column out whose conditions are both true and whose
\* switches are both None make the resolution fail with the ambiguity error
C4_AmbiguityError ==
    (/\ Resolved("out")
     /\ Len(TrueCandidates("out")) = 2
     /\ \A i \in 1..2 : TrueCandidates("out")[i].switch = None)
        => outcome.exc = "ArcanaDesignError" /\ outcome.msg = "multiple_pipelines_match"

\* C5: a column mapped from sub.inner with no builder of its own resolves to what
\* the selection steps give for column inner in the spec of the subanalysis
C5_Delegation ==
    (/\ Resolved("out")
     /\ MainColumn("out").mapped_from = Pair("sub", "inner")
     /\ Candidates("out") = <<>>)
        => /\ outcome.exc = "none"
           /\ outcome.val = SelectSeq(Producers(registry["Sub"].pipeline_builders, "inner"),
                                      LAMBDA p : p.condition = None)

\* C6: with no true and no unconditional candidate and no mapped_from the
\* resolution fails with the 'no applicable pipeline builder' error; a resolution
\* that returns never returns an empty selection nor a builder whose condition is false
C6_NoApplicableBuilder ==
    Resolved("out") =>
        /\ (/\ TrueCandidates("out") = <<>>
            /\ Unconditional("out") = <<>>
            /\ MainColumn("out").mapped_from = None)
              => outcome.exc = "ArcanaDesignError" /\ outcome.msg = "no_pipeline_builders"
        /\ outcome.exc = "none"
              => /\ outcome.val # <<>>
                 /\ \A i \in 1..Len(outcome.val) : ~In(outcome.val[i], FalseCandidates("out"))


----------------------------------------------------------------------------
(* Assembly *)

\* the latest call was AnalysisSpec(...) or make_class(...)
Assembled == outcome.op \in {"AnalysisSpec", "make_class"}

\* every AnalysisSpec that exists: the __spec__ of each class and the one the
\* latest call returned
BuiltSpecs ==
    {registry[k] : k \in {k \in Classes : registry[k] # NoSpec}}
        \cup (IF Assembled /\ outcome.exc = "none" THEN {outcome.val} ELSE {})

\* no two entities of the tuple share a name
DistinctNames(tuple) == \A i, j \in 1..Len(tuple) : tuple[i].name = tuple[j].name => i = j

\* the pipeline methods and builders the latest call put together: those of the
\* body and, for make_class, those of the base classes
AllBuilders ==
    IF outcome.op = "make_class" /\ outcome.mro # <<>>
        THEN body.pipelines \o registry["Base"].pipeline_builders
        ELSE body.pipelines

\* the column has no producing builder, is not mapped and is below publication
Orphan(c, builders) ==
    /\ Producers(builders, c.name) = <<>>
    /\ c.mapped_from = None
    /\ SalienceLevel(c.salience) < SalienceLevel("publication")

\* the column is mapped, or produced, or is above publication and consumed
Covered(c, builders) ==
    \/ c.mapped_from # None
    \/ Producers(builders, c.name) # <<>>
    \/ /\ SalienceLevel(c.salience) > SalienceLevel("publication")
       /\ \E i \in 1..Len(builders) : In(c.name, builders[i].inputs)

\* the column is mapped, or produced, or is at or above publication
CoveredAtPublication(c, builders) ==
    \/ c.mapped_from # None
    \/ Producers(builders, c.name) # <<>>
    \/ SalienceLevel(c.salience) >= SalienceLevel("publication")

CoverageErrors == {"neither_input_nor_output", "not_generated"}

\* two builders of the tuple share an output and have equal (condition, switch)
EqualPair(builders) ==
    \E i, j \in 1..Len(builders) :
        /\ i # j
        /\ \E o \in {"out", "inp", "inner"} : In(o, builders[i].outputs) /\ In(o, builders[j].outputs)
        /\ builders[i].condition = builders[j].condition
        /\ builders[i].switch = builders[j].switch

\* C7: in every AnalysisSpec that exists no two entities of one kind share a name,
\* and a construction from declarations with a repeated name fails
C7_UniqueNames ==
    /\ \A spec \in BuiltSpecs :
          /\ DistinctNames(spec.column_specs) /\ DistinctNames(spec.pipeline_builders)
          /\ DistinctNames(spec.parameters) /\ DistinctNames(spec.switches)
          /\ DistinctNames(spec.checks) /\ DistinctNames(spec.subanalyses)
    /\ (/\ Assembled
        /\ \/ ~DistinctNames(body.columns) \/ ~DistinctNames(body.pipelines)
           \/ ~DistinctNames(body.parameters) \/ ~DistinctNames(body.switches)
           \/ ~DistinctNames(body.checks) \/ ~DistinctNames(body.subanalyses))
          => outcome.exc # "none"

\* C7: make_class over the base class Base rejected a repeated name
C7_DuplicateRejected ==
    /\ outcome.op = "make_class"
    /\ outcome.mro = <<"Base">>
    /\ outcome.exc = "ValueError"
    /\ outcome.msg = "duplicate_names"

\* C8: no AnalysisSpec that exists has a column without producer, without
\* mapped_from and below publication, and a construction from declarations with
\* such a column fails
C8_OrphanRejected ==
    /\ \A spec \in BuiltSpecs : \A i \in 1..Len(spec.column_specs) :
          ~Orphan(spec.column_specs[i], spec.pipeline_builders)
    /\ (Assembled /\ \E i \in 1..Len(body.columns) : Orphan(body.columns[i], AllBuilders))
          => outcome.exc # "none"

\* C8: make_class failed on a consumed column below publication that nothing produces
C8_OrphanSeen ==
    /\ outcome.op = "make_class"
    /\ outcome.msg = "not_generated"
    /\ \E i \in 1..Len(body.columns) :
          /\ Orphan(body.columns[i], AllBuilders)
          /\ \E k \in 1..Len(body.pipelines) : In(body.columns[i].name, body.pipelines[k].args)

\* C9 as stated: declarations whose columns are each mapped, produced or at or
\* above publication never fail the coverage validation
C9_PublicationAccepted ==
    (/\ outcome.op = "AnalysisSpec"
     /\ \A i \in 1..Len(body.columns) : CoveredAtPublication(body.columns[i], body.pipelines))
        => outcome.msg \notin CoverageErrors

\* C9 amended: declarations whose columns are each mapped, produced, or above
\* publication and consumed never fail the coverage validation, and every column
\* of every AnalysisSpec that exists is one of these
C9_CoverageAccepts ==
    /\ (/\ outcome.op = "AnalysisSpec"
        /\ \A i \in 1..Len(body.columns) : Covered(body.columns[i], DirectBuilders(body)))
          => outcome.msg \notin CoverageErrors
    /\ \A spec \in BuiltSpecs : \A i \in 1..Len(spec.column_specs) :
          Covered(spec.column_specs[i], spec.pipeline_builders)

\* C9: a spec was constructed with a primary column that no builder produces
C9_PrimaryInputAccepted ==
    /\ outcome.op = "AnalysisSpec"
    /\ outcome.exc = "none"
    /\ \E i \in 1..Len(outcome.val.column_specs) :
          /\ outcome.val.column_specs[i].salience = "primary"
          /\ outcome.val.column_specs[i].mapped_from = None
          /\ Producers(outcome.val.pipeline_builders, outcome.val.column_specs[i].name) = <<>>

\* C10: in every AnalysisSpec that exists the builders of a column have pairwise
\* different (condition, switch) pairs; a direct construction with two builders
\* of one column and an equal pair fails, with the error that lists them when
\* that column is the only one
C10_NoEqualPairs ==
    /\ \A spec \in BuiltSpecs : ~EqualPair(spec.pipeline_builders)
    /\ (outcome.op = "AnalysisSpec" /\ EqualPair(DirectBuilders(body)))
          => /\ outcome.exc # "none"
             /\ (Len(body.columns) = 1 /\ body.columns[1].name = "out")
                   => outcome.msg = "multiple_pipelines"

\* C10: a construction with two builders of out that both have (None, None) failed
\* with the error that lists them
C10_DefaultsConflict ==
    /\ outcome.op = "AnalysisSpec"
    /\ outcome.msg = "multiple_pipelines"
    /\ \E i, j \in 1..Len(body.pipelines) :
          /\ i # j
          /\ body.pipelines[i].condition = None /\ body.pipelines[j].condition = None
          /\ body.pipelines[i].switch = None /\ body.pipelines[j].switch = None

\* the columns the latest call put together: those of the body and, for
\* make_class, those of the base classes
AllColumns ==
    IF outcome.op = "make_class" /\ outcome.mro # <<>>
        THEN Names(body.columns) \o Names(registry["Base"].column_specs)
        ELSE Names(body.columns)

\* some output of some builder of the tuple is not one of the column names
UnknownOutput(builders, column_names) ==
    \E i \in 1..Len(builders) : \E k \in 1..Len(builders[i].outputs) :
        ~In(builders[i].outputs[k], column_names)

\* C11: in every AnalysisSpec that exists every output of every builder is the
\* name of a column of that spec, and a construction from declarations with a
\* builder whose output is not a declared column fails
C11_OutputsDeclared ==
    /\ \A spec \in BuiltSpecs :
          ~UnknownOutput(spec.pipeline_builders, Names(spec.column_specs))
    /\ (Assembled /\ UnknownOutput(body.pipelines, AllColumns)) => outcome.exc # "none"

\* C11: make_class failed on a builder whose output is not a declared column
C11_UnknownOutputRejected ==
    /\ outcome.op = "make_class"
    /\ outcome.exc = "ArcanaDesignError"
    /\ outcome.msg = "unknown_columns"
    /\ UnknownOutput(body.pipelines, AllColumns)


----------------------------------------------------------------------------
(* Inheritance *)

\* the latest call was make_class for a class of the chain
Subclassed == outcome.op = "make_class" /\ outcome.mro # <<>>

\* the class of the chain that the latest make_class was for
ChainKlass == IF outcome.mro = <<"Base">> THEN "Mid" ELSE "Main"

\* the specs of the base classes of the latest make_class, nearest first
BaseSpecs == [i \in 1..Len(outcome.mro) |-> registry[outcome.mro[i]]]

\* the kinds of entities of a spec, by the field that holds them
Kinds == {"column_specs", "parameters", "subanalyses", "pipeline_builders", "switches", "checks"}

\* the entities named nme in a tuple
Named(tuple, nme) == SelectSeq(tuple, LAMBDA e : e.name = nme)

\* the builders of the base classes that have the name of the method
BaseBuilders(method) ==
    {b \in UNION {{BaseSpecs[i].pipeline_builders[k] :
                      k \in 1..Len(BaseSpecs[i].pipeline_builders)} : i \in 1..Len(BaseSpecs)} :
        b.name = method.name}

\* the method leaves out an output of a builder of its name in a base class
Omits(method) ==
    \E b \in BaseBuilders(method) : \E k \in 1..Len(b.outputs) : ~In(b.outputs[k], method.outputs)

\* C12: when the body re-declares a builder of a base class, make_class fails if
\* the method leaves out an output of a base version (of any base of the chain);
\* if no method does, make_class does not fail on the outputs check, and the
\* spec of a class that is assembled has exactly one builder of the name, the
\* class's own, whose outputs contain those of every base version
C12_OverrideOutputs ==
    Subclassed =>
        /\ \A i \in 1..Len(body.pipelines) :
              Omits(body.pipelines[i]) => outcome.exc # "none"
        /\ (\A i \in 1..Len(body.pipelines) : ~Omits(body.pipelines[i]))
              => outcome.msg # "missing_outputs"
        /\ \A i \in 1..Len(body.pipelines) :
              LET method == body.pipelines[i]
              IN (BaseBuilders(method) # {} /\ ~Omits(method) /\ outcome.exc = "none") =>
                    LET named == Named(outcome.val.pipeline_builders, method.name)
                    IN /\ Len(named) = 1
                       /\ named[1].defined_in = ChainKlass
                       /\ named[1].outputs = method.outputs
                       /\ \A b \in BaseBuilders(method) : \A k \in 1..Len(b.outputs) :
                             In(b.outputs[k], named[1].outputs)

\* C12: Main re-declared B1 with every output of the B1 of Mid, which had added
\* an output to the B1 of Base, and the spec of Main holds the B1 of Main alone
C12_OverrideAdded ==
    /\ Subclassed /\ ChainKlass = "Main" /\ outcome.exc = "none"
    /\ Named(registry["Mid"].pipeline_builders, "B1") # <<>>
    /\ Named(registry["Mid"].pipeline_builders, "B1")[1].defined_in = "Mid"
    /\ Named(registry["Mid"].pipeline_builders, "B1")[1].outputs = <<"out", "inp">>
    /\ Named(body.pipelines, "B1") # <<>>
    /\ Len(Named(outcome.val.pipeline_builders, "B1")) = 1
    /\ Named(outcome.val.pipeline_builders, "B1")[1].defined_in = "Main"

\* the names of the columns, parameters and subanalyses of the base classes
BaseAttrNames ==
    UNION {AttrsNames(BaseSpecs[i]) : i \in 1..Len(BaseSpecs)}

\* the body declares a column, parameter or subanalysis of a base class anew
Shadows(klass_body) ==
    \E nme \in BaseAttrNames :
        In(nme, Names(klass_body.columns) \o Names(klass_body.parameters)
                    \o Names(klass_body.subanalyses))

\* the base classes of the latest make_class that have the name in their __dict__
DeclaredIn(nme) == SelectSeq(outcome.mro, LAMBDA base : In(nme, dicts[base]))

\* C13: make_class fails when the body declares anew, without Inherited, a
\* column, parameter or subanalysis of a base class; when it does not, make_class
\* does not fail on that check, and every attribute declared through Inherited
\* of an assembled class is an entity whose defined_in lists the base classes
\* that declare it and whose modified lists the overwritten fields
C13_SilentShadow ==
    Subclassed =>
        /\ Shadows(body) => outcome.exc # "none"
        /\ ~Shadows(body) => outcome.msg # "overwritten_without_inherited"
        /\ outcome.exc = "none" =>
              \A i \in 1..Len(body.inherited) :
                  LET attr == body.inherited[i]
                      named == Named(outcome.val.column_specs \o outcome.val.parameters,
                                     attr.name)
                  IN /\ Len(named) = 1
                     /\ named[1].defined_in = DeclaredIn(attr.name)
                     /\ named[1].defined_in # <<>>
                     /\ named[1].modified = List(attr.to_overwrite)

\* C13: Main inherited column out, which Mid had inherited from Base, with its
\* salience overwritten
C13_InheritedRecorded ==
    /\ Subclassed /\ ChainKlass = "Main" /\ outcome.exc = "none"
    /\ \E i \in 1..Len(body.inherited) : body.inherited[i].name = "out"
    /\ Len(Named(outcome.val.column_specs, "out")) = 1
    /\ Named(outcome.val.column_specs, "out")[1].defined_in = <<"Mid", "Base">>
    /\ Named(outcome.val.column_specs, "out")[1].modified
          = List(<<Pair("salience", Str("supporting"))>>)
    /\ Named(outcome.val.column_specs, "out")[1].salience = "supporting"

\* the entity is the class's own version of what the body declares under its name
OwnVersion(e, kind, klass_body, klass) ==
    CASE kind \in {"pipeline_builders", "switches", "checks"} -> e.defined_in = klass
      [] kind = "subanalyses" -> e.defined_in = <<klass>>
      [] OTHER ->
            \/ e.defined_in = <<klass>>
            \/ \E i \in 1..Len(klass_body.inherited) :
                  /\ klass_body.inherited[i].name = e.name
                  /\ e.modified = List(klass_body.inherited[i].to_overwrite)

\* the names the body declares for a kind of entity
LocalNames(klass_body, kind) ==
    CASE kind = "column_specs" -> Names(klass_body.columns) \o Names(klass_body.inherited)
      [] kind = "parameters" -> Names(klass_body.parameters) \o Names(klass_body.inherited)
      [] kind = "subanalyses" -> Names(klass_body.subanalyses)
      [] kind = "pipeline_builders" -> Names(klass_body.pipelines)
      [] kind = "switches" -> Names(klass_body.switches)
      [] kind = "checks" -> Names(klass_body.checks)

\* the entity of the nearest base class that has one of the kind and name
NearestBase(kind, nme) ==
    LET having == SelectSeq(BaseSpecs, LAMBDA spec : Named(spec[kind], nme) # <<>>)
    IN Named(having[1][kind], nme)[1]

\* C14: in the spec of an assembled class of the chain every kind has one entity
\* for each name declared in the body or in a base class and no other; the
\* entity of a name the body declares is the class's own, and that of any other
\* name is the one of the nearest base class that has the name
C14_MostDerived ==
    (Subclassed /\ outcome.exc = "none") =>
        \A kind \in Kinds :
            LET entities == outcome.val[kind]
            IN /\ DistinctNames(entities)
               /\ \A i \in 1..Len(BaseSpecs) : \A k \in 1..Len(BaseSpecs[i][kind]) :
                     Named(entities, BaseSpecs[i][kind][k].name) # <<>>
               /\ \A k \in 1..Len(entities) :
                     IF In(entities[k].name, LocalNames(body, kind))
                         THEN OwnVersion(entities[k], kind, body, ChainKlass)
                         ELSE /\ \E i \in 1..Len(BaseSpecs) :
                                    Named(BaseSpecs[i][kind], entities[k].name) # <<>>
                              /\ entities[k] = NearestBase(kind, entities[k].name)
               /\ \A k \in 1..Len(body.pipelines) : Named(entities, body.pipelines[k].name) # <<>>
                     \/ kind # "pipeline_builders"

\* C14: Main declared a switch of its own and took B1 from Mid, which had
\* re-declared the B1 of Base
C14_NearestVersionKept ==
    /\ Subclassed /\ ChainKlass = "Main" /\ outcome.exc = "none"
    /\ body.switches # <<>> /\ body.pipelines = <<>>
    /\ Named(outcome.val.switches, "sw") # <<>>
    /\ Named(outcome.val.switches, "sw")[1].defined_in = "Main"
    /\ Named(outcome.val.pipeline_builders, "B1") # <<>>
    /\ Named(outcome.val.pipeline_builders, "B1")[1].defined_in = "Mid"
    /\ Named(registry["Base"].pipeline_builders, "B1")[1].defined_in = "Base"

\* C15: make_class for a space that is not the space of the spec of some base
\* class fails and gives the class no spec (with the error of the space check
\* when the body is empty), and the space of the spec of every class of the
\* chain is that of the spec of each of its base classes
C15_SpaceIdentity ==
    /\ (Subclassed /\ \E i \in 1..Len(BaseSpecs) : BaseSpecs[i].space # outcome.space)
          => /\ outcome.exc # "none"
             /\ registry[ChainKlass] = NoSpec
             /\ body = EmptyBody => outcome.exc = "ValueError" /\ outcome.msg = "redefine_space"
    /\ \A klass \in {"Mid", "Main"} :
          registry[klass] # NoSpec =>
              \A i \in 1..Len(ChainMro(klass)) :
                  registry[ChainMro(klass)[i]].space = registry[klass].space

\* C15: make_class for Main failed on the space of Mid and Base
C15_SpaceRedefined ==
    /\ Subclassed /\ ChainKlass = "Main"
    /\ outcome.exc = "ValueError" /\ outcome.msg = "redefine_space"
    /\ registry["Mid"].space # outcome.space
    /\ registry["Main"] = NoSpec

\* what AnalysisSpec's validators say of a spec that exists
Revalidated(spec) ==
    AnalysisSpec(spec.space, spec.column_specs, spec.pipeline_builders, spec.parameters,
                 spec.switches, spec.checks, spec.subanalyses)

\* the body has a reserved name, a method argument that is no column or
\* parameter of the body, or an attribute inherited from no base class
Defective(klass_body) ==
    \/ \E i \in 1..Len(DictNames(klass_body)) : DictNames(klass_body)[i] \in RESERVED_NAMES
    \/ \E i \in 1..Len(klass_body.pipelines) : \E k \in 1..Len(klass_body.pipelines[i].args) :
          ~In(klass_body.pipelines[i].args[k],
              Names(klass_body.columns) \o Names(klass_body.parameters)
                  \o Names(klass_body.inherited))
    \/ \E i \in 1..Len(klass_body.inherited) : DeclaredIn(klass_body.inherited[i].name) = <<>>

\* C16: a make_class that fails gives the class no spec and no place among the
\* classes; the spec of every class that exists passes every validator of
\* AnalysisSpec; and a body with a reserved name, an unrecognised method argument
\* or an unresolvable inherited attribute makes make_class fail
C16_AllOrNothing ==
    /\ (Subclassed /\ outcome.exc # "none")
          => registry[ChainKlass] = NoSpec /\ dicts[ChainKlass] = <<>>
    /\ (Subclassed /\ outcome.exc = "none") => registry[ChainKlass] = outcome.val
    /\ \A klass \in Classes :
          registry[klass] # NoSpec => Revalidated(registry[klass]).exc = "none"
    /\ (Subclassed /\ Defective(body)) => outcome.exc # "none"

\* C16: make_class for Main failed in a validator of AnalysisSpec, after the
\* merge with Mid and Base, and Main has no spec
C16_ValidatorFailureUnpublished ==
    /\ Subclassed /\ ChainKlass = "Main"
    /\ outcome.msg \in {"duplicate_names", "multiple_pipelines", "unknown_columns",
                        "neither_input_nor_output", "not_generated"}
    /\ registry["Main"] = NoSpec

\* every value_of inside the operand names a parameter and every is_provided a
\* column, among the given names
RECURSIVE WellFormed(_, _, _)
WellFormed(operand, column_names, parameter_names) ==
    operand.tag \in {"Operation", "_UnresolvedOp"} =>
        /\ operand.operator = "value_of" =>
              /\ Len(operand.operands) = 1
              /\ operand.operands[1].tag \in {"str", "attr"}
              /\ In(ResolvedOperand(operand.operands[1]).val, parameter_names)
        /\ operand.operator = "is_provided" =>
              /\ Len(operand.operands) \in {1, 2}
              /\ operand.operands[1].tag \in {"str", "attr"}
              /\ In(ResolvedOperand(operand.operands[1]).val, column_names)
        /\ \A i \in 1..Len(operand.operands) :
              WellFormed(operand.operands[i], column_names, parameter_names)

\* the names of the columns (kind "column_specs") or parameters that the body or
\* a base class of the latest make_class declares
DeclaredNames(kind) ==
    {body[IF kind = "parameters" THEN "parameters" ELSE "columns"][i].name :
        i \in 1..Len(body[IF kind = "parameters" THEN "parameters" ELSE "columns"])}
        \cup UNION {{BaseSpecs[i][kind][k].name : k \in 1..Len(BaseSpecs[i][kind])} :
                       i \in 1..Len(BaseSpecs)}

\* the sequence of the elements of a set of names, in the order of NameOrder
InOrder(names) == SelectSeq(NameOrder, LAMBDA n : n \in names)

\* C17: in the spec of every class that exists every value_of inside the
\* condition of a builder names a parameter of the spec and every is_provided
\* a column of the spec, at any depth; and make_class fails for a body with a
\* condition in which, at any depth, value_of is applied to what is no declared
\* parameter or is_provided to what is no declared column
C17_OperandsValidated ==
    /\ \A klass \in Classes :
          registry[klass] # NoSpec =>
              \A i \in 1..Len(registry[klass].pipeline_builders) :
                  WellFormed(registry[klass].pipeline_builders[i].condition,
                             Names(registry[klass].column_specs),
                             Names(registry[klass].parameters))
    /\ (Subclassed /\ \E i \in 1..Len(body.pipelines) :
                         ~WellFormed(body.pipelines[i].condition,
                                     InOrder(DeclaredNames("column_specs")),
                                     InOrder(DeclaredNames("parameters"))))
          => outcome.exc # "none"

\* C17: make_class failed on an is_provided of a parameter that stands inside an
\* or_, next to a value_of of that parameter, which the body declares
C17_NestedOperandRejected ==
    /\ Subclassed
    /\ outcome.exc = "ValueError" /\ outcome.msg = "is_provided_non_column"
    /\ In("mode", Names(body.parameters))
    /\ \E i \in 1..Len(body.pipelines) : body.pipelines[i].condition = FastOrProvidedMode

\* the default of the parameter attribute is not among its choices, or not
\* within its bounds
OutOfRange(attr) ==
    /\ attr.default # None
    /\ IF attr.choices # None THEN ~In(attr.default, attr.choices.items)
       ELSE \/ attr.lower_bound # None /\ attr.default.val < attr.lower_bound.val
            \/ attr.upper_bound # None /\ attr.default.val > attr.upper_bound.val

\* C18: make_class fails for a body with a parameter whose default is not among
\* its choices or not within its bounds, so that no class has a spec with such
\* a parameter
C18_BadDefaultRejected ==
    /\ (Subclassed /\ \E i \in 1..Len(body.parameters) : OutOfRange(body.parameters[i]))
          => outcome.exc # "none"
    /\ \A klass \in Classes :
          registry[klass] # NoSpec =>
              \A i \in 1..Len(registry[klass].parameters) :
                  ~OutOfRange(registry[klass].parameters[i])

----------------------------------------------------------------------------
(* Evaluation of conditions *)

\* the latest call evaluated an operation with the given operator
Evaluated(operator) ==
    /\ outcome.op = "evaluate"
    /\ outcome.operation # None
    /\ outcome.operation.operator = operator

\* the dataset column bound to the column slot the evaluated is_provided names
Slot == analysis.values[outcome.operation.operands[1].val]

\* C19: evaluate of is_provided(x) returns False when slot x of the analysis is
\* None and True when it is bound to a column of the dataset; with a second
\* operand Fmt it returns whether the slot is bound and the format of the
\* dataset's column is Fmt or a sub-format of Fmt
C19_IsProvided ==
    (Evaluated("is_provided") /\ (Slot = None \/ Slot.val \in DOMAIN outcome.dataset)) =>
        /\ outcome.exc = "none"
        /\ outcome.val =
              Bool(/\ Slot # None
                   /\ Len(outcome.operation.operands) = 2
                         => IsSubclass(outcome.dataset[Slot.val],
                                       outcome.operation.operands[2].val))

\* the value of an operand on the instance as the specification describes it:
\* a literal or attribute name is itself, value_of reads the parameter,
\* is_provided the column slot, and the other operators apply to the values
RECURSIVE ClaimedValue(_)
ClaimedValue(operand) ==
    IF operand.tag # "Operation" THEN operand
    ELSE LET values == [i \in 1..Len(operand.operands) |-> ClaimedValue(operand.operands[i])]
         IN CASE operand.operator = "value_of" -> analysis.values[values[1].val]
              [] operand.operator = "is_provided" -> Bool(analysis.values[values[1].val] # None)
              [] operand.operator = "eq" -> Bool(values[1] = values[2])
              [] operand.operator = "ne" -> Bool(values[1] # values[2])
              [] operand.operator = "and_" -> Bool(Truthy(values[1]) /\ Truthy(values[2]))
              [] operand.operator = "or_" -> Bool(Truthy(values[1]) \/ Truthy(values[2]))
              [] OTHER -> Bool(~Truthy(values[1]))

\* C20: evaluate of value_of(p) returns the value of parameter p on the
\* instance, evaluate of eq(value_of(p), lit) whether that value is lit, and
\* evaluate of and_, or_ and the negation the composition of what their operands
\* evaluate to
C20_ValueOf ==
    (outcome.op = "evaluate" /\ ~Evaluated("is_provided")) =>
        /\ outcome.exc = "none"
        /\ outcome.val = ClaimedValue(outcome.operation)

----------------------------------------------------------------------------
(* Values of parameters *)

\* the value is among the choices of the parameter, or within its bounds
InRange(parameter, val) ==
    IF parameter.choices # None THEN In(val, parameter.choices.items)
    ELSE /\ parameter.lower_bound # None
               => val.tag = "int" /\ val.val >= parameter.lower_bound.val
         /\ parameter.upper_bound # None
               => val.tag = "int" /\ val.val <= parameter.upper_bound.val

\* the value can be compared with the bounds the parameter has
Comparable(parameter, val) ==
    \/ parameter.choices # None
    \/ val.tag = "int"
    \/ parameter.lower_bound = None /\ parameter.upper_bound = None

\* the latest call wrote a parameter of the instance
Wrote == outcome.op = "__setattr__" /\ In(outcome.column, Names(registry["Main"].parameters))

\* the parameter of Main that the latest call wrote
WrittenParameter == Named(registry["Main"].parameters, outcome.column)[1]

\* every parameter of the instance has a value among its choices or within its bounds
ValuesInRange ==
    analysis # NoAnalysis =>
        \A i \in 1..Len(registry["Main"].parameters) :
            InRange(registry["Main"].parameters[i],
                    analysis.values[registry["Main"].parameters[i].name])

\* a write that raised left the instance as it was, and one that returned
\* changed the written parameter alone
WriteFrame ==
    (outcome'.op = "__setattr__" /\ analysis # NoAnalysis) =>
        IF outcome'.exc # "none" THEN analysis' = analysis
        ELSE analysis' = [analysis EXCEPT !.values[outcome'.column] = outcome'.written]

\* C21: every parameter of an instance always has a value among its choices or
\* within its bounds; a write of such a value returns and the parameter holds
\* it; a write of any other value raises, ValueError when the value can be
\* compared with the bounds and TypeError when it cannot, and leaves the
\* instance as it was
C21_WritesValidated ==
    /\ [](/\ ValuesInRange
          /\ Wrote =>
                IF InRange(WrittenParameter, outcome.written)
                    THEN /\ outcome.exc = "none"
                         /\ analysis.values[outcome.column] = outcome.written
                    ELSE outcome.exc = IF Comparable(WrittenParameter, outcome.written)
                                           THEN "ValueError" ELSE "TypeError")
    /\ [][WriteFrame]_vars

\* C21: a write of 5 to n, which has an upper bound of 3, raised ValueError and
\* n kept the 3 that an earlier write had given it in place of its default
C21_RejectedWriteKeptValue ==
    /\ Wrote /\ outcome.column = "n" /\ outcome.written = Int(5)
    /\ outcome.exc = "ValueError" /\ outcome.msg = "not_within_bounds"
    /\ WrittenParameter.upper_bound = Int(3)
    /\ WrittenParameter.default = Int(2)
    /\ analysis.values["n"] = Int(3)

\* C21 as stated: every write of a value that is not among the choices or within
\* the bounds raises ValueError
C21_ValueErrorOnEveryBadWrite ==
    (Wrote /\ ~InRange(WrittenParameter, outcome.written)) => outcome.exc = "ValueError"

----------------------------------------------------------------------------
(* Subanalysis wrappers *)

\* the wrapper that the latest read or write went through
Wrapper == analysis.subanalyses[outcome.operation.val]

\* the mappings of the wrapper's spec for the name read or written
MappingsOf(wrapper, nme) == SelectSeq(wrapper.spec.mappings, LAMBDA m : m.first = nme)

\* C22: reading a name on a Subanalysis wrapper returns the value the parent
\* instance has for the name it is mapped to, when the wrapper's spec has a
\* mapping for it, and the value the nested instance has for the name when there
\* is no mapping and the nested instance has the attribute
C22_WrapperReads ==
    outcome.op = "Subanalysis.__getattr__" =>
        IF MappingsOf(Wrapper, outcome.column) # <<>>
            THEN /\ outcome.exc = "none"
                 /\ outcome.val = analysis.values[MappingsOf(Wrapper, outcome.column)[1].second]
            ELSE outcome.column \in DOMAIN Wrapper.analysis.values =>
                    /\ outcome.exc = "none"
                    /\ outcome.val = Wrapper.analysis.values[outcome.column]

\* C22: column out of the parent was written, and reading inner, which is mapped
\* to it, on the wrapper returned the written value, which the nested instance
\* does not hold
C22_ReadSeesParentWrite ==
    /\ outcome.op = "Subanalysis.__getattr__" /\ outcome.column = "inner"
    /\ MappingsOf(Wrapper, "inner") # <<>>
    /\ analysis.values["out"] = Str("out")
    /\ outcome.val = Str("out")
    /\ Wrapper.analysis.values["inner"] # Str("out")

\* a write through a wrapper: one to a name with a mapping raises AttributeError
\* and changes no instance; one to a name without is a write to the nested
\* instance and changes, when the nested instance has the attribute, that
\* attribute of the nested instance alone
WrapperWriteFrame ==
    (outcome'.op = "Subanalysis.__setattr__" /\ analysis # NoAnalysis) =>
        LET sub == outcome'.operation.val
            wrapper == analysis.subanalyses[sub]
        IN IF MappingsOf(wrapper, outcome'.column) # <<>>
               THEN outcome'.exc = "AttributeError" /\ analysis' = analysis
           ELSE IF outcome'.column \in DOMAIN wrapper.analysis.values
               THEN /\ outcome'.exc = "none"
                    /\ analysis'.values = analysis.values
                    /\ analysis' = [analysis EXCEPT
                          !.subanalyses[sub].analysis.values[outcome'.column] = outcome'.written]
           ELSE outcome'.exc # "none" /\ analysis' = analysis

\* C23: writing a name on a Subanalysis wrapper raises AttributeError and changes
\* neither the parent nor the nested instance when the name has a mapping, and
\* sets the name on the nested instance alone when it has none
C23_WrapperWrites == [][WrapperWriteFrame]_vars

\* C23: a write of inner, which is mapped to out, on the wrapper was rejected,
\* and out of the parent still has the value written to it before
C23_MappedWriteRejected ==
    /\ outcome.op = "Subanalysis.__setattr__" /\ outcome.column = "inner"
    /\ outcome.exc = "AttributeError" /\ outcome.msg = "mapped_attribute"
    /\ outcome.written = Str("inp")
    /\ analysis.values["out"] = Str("out")
    /\ Wrapper.analysis.values["inner"] = NOTHING

\* the columns and parameters of the spec that are mapped from the subanalysis
MappedFromSub(spec, sub) ==
    SelectSeq(spec.column_specs \o spec.parameters,
              LAMBDA c : c.mapped_from # None /\ c.mapped_from.first = sub.name)

\* C24: the mappings of every subanalysis of the spec of a class are sorted,
\* have no pair twice, and have the pair (inner, outer) for every column or
\* parameter outer of the spec that is mapped from inner of the subanalysis
C24_MappingsDeduplicated ==
    \A klass \in Classes :
        registry[klass] # NoSpec =>
            \A i \in 1..Len(registry[klass].subanalyses) :
                LET sub == registry[klass].subanalyses[i]
                    mapped == MappedFromSub(registry[klass], sub)
                IN /\ \A k \in 1..(Len(sub.mappings) - 1) :
                         ~PairLess(sub.mappings[k + 1], sub.mappings[k])
                   /\ \A k, l \in 1..Len(sub.mappings) :
                         k # l => sub.mappings[k] # sub.mappings[l]
                   /\ \A k \in 1..Len(mapped) :
                         In(Pair(mapped[k].mapped_from.second, mapped[k].name), sub.mappings)

----------------------------------------------------------------------------
(* Dispatch and the state it reads *)

\* a call of select_pipeline_builders changed neither a spec nor the instance
\* with its parameter values and nested instances
ResolveFrame ==
    outcome'.op = "select_pipeline_builders" => registry' = registry /\ analysis' = analysis

\* what the latest call of select_pipeline_builders did is what a call for that
\* column and dataset does on the specs and the instance as they are, whatever
\* was resolved before it
ResolveOutcome ==
    outcome.op = "select_pipeline_builders" =>
        outcome = [Outcome("select_pipeline_builders",
                           select_pipeline_builders(
                               Named(registry["Main"].column_specs, outcome.column)[1],
                               analysis, outcome.dataset, registry))
                      EXCEPT !.column = outcome.column, !.dataset = outcome.dataset]

----------------------------------------------------------------------------
(* The cache of a RemoteStore *)

\* the processes that are executing download_files
Downloading == {p \in Procs : store.procs[p].pc \in {"download_files", "restart_download"}}

\* C26: no two processes execute download_files for the entry at the same time
C26_OneDownloadAtATime == Cardinality(Downloading) <= 1

\* the latest call of the process was get_fileset and is over
GotFileset(p) == store.procs[p].op = "get_fileset" /\ store.procs[p].pc = "idle"

\* what get_fileset found when it was called lets it skip the download
CacheFresh(p) ==
    store.procs[p].cached /\ store.procs[p].saved = store.procs[p].checksums

\* C27: get_fileset returns without raising, and it has run download_files
\* unless the cache directory existed and the checksum file held entry.checksums
\* when it was called
C27_DownloadUnlessFresh ==
    \A p \in Procs :
        (GotFileset(p) /\ store.procs[p].exc # "KeyboardInterrupt") =>
            /\ store.procs[p].exc = "none"
            /\ store.procs[p].downloaded = ~CacheFresh(p)

\* C28: when no call is in progress, a checksum file that exists next to the
\* cache directory holds the checksums of the files in that directory
C28_ChecksumsOfCache ==
    ((\A p \in Procs : store.procs[p].pc = "idle") /\ store.md5 # None /\ store.cache # 0) =>
        store.md5 = Checksums(store.cache)

\* C29: when get_fileset returned, the download directory did not exist
C29_DownloadDirRemoved ==
    \A p \in Procs :
        (GotFileset(p) /\ store.procs[p].exc = "none") => ~store.procs[p].left

----------------------------------------------------------------------------
(* The rows of a DataTree *)

\* no two rows of one frequency under the root share an id
RowsUnique ==
    \A r1, r2 \in tree.rows : (r1.frequency = r2.frequency /\ r1.id = r2.id) => r1 = r2

\* no row has two children of one frequency under the same id
ChildrenUnique ==
    \A c1, c2 \in tree.children :
        (c1.parent = c2.parent /\ c1.frequency = c2.frequency /\ c1.diff_id = c2.diff_id)
            => c1 = c2

\* an add_leaf on a tree with a root that raises ArcanaDataTreeConstructionError
\* leaves the tree as it was
FailedLeafFrame ==
    (tree.root /\ outcome'.op = "add_leaf"
               /\ outcome'.exc = "ArcanaDataTreeConstructionError") => tree' = tree

\* the row of a successful add_leaf is a child of a row of the tree at each of
\* its parent frequencies
LeafLinked ==
    (outcome'.op = "add_leaf" /\ outcome'.exc = "none") =>
        \E row \in tree'.rows \ tree.rows :
            /\ row.frequency = "ab"
            /\ \A parent_freq \in {"a", "b"} :
                  \E c \in tree'.children :
                     /\ c.child = <<"ab", row.id>>
                     /\ c.parent[1] = parent_freq
                     /\ HasRow(tree'.rows, parent_freq, c.parent[2])

\* C30: rows and children are unique under their ids after any sequence of
\* add_leaf calls, an add_leaf that raises ArcanaDataTreeConstructionError leaves
\* the tree exactly as it was, and a successful add_leaf leaves the new row
\* linked under an existing row at every parent frequency
C30_AddLeaf ==
    /\ [](RowsUnique /\ ChildrenUnique)
    /\ [][FailedLeafFrame]_vars
    /\ [][LeafLinked]_vars

============================================================================
